---- MODULE Spec2Model ----
(***************************************************************************)
(* State machine of the resumable catalog crawler of                       *)
(* src/script_manus.py: the in-memory globals (all_assessments,            *)
(* processed_urls, processed_pages, crawl_state), the locals of            *)
(* crawl_section, the three files (dataset, partial dataset, crawl state)  *)
(* and the remote catalog.  A process can be interrupted by a signal or    *)
(* killed at every step and started again.                                 *)
(***************************************************************************)
EXTENDS Integers, Sequences, FiniteSets, TLC

VARIABLES
    \* the remote site
    catalog,              \* listing URL -> page (unchanged during a behaviour)
    \* durable storage
    outFile,              \* OUTPUT_FILE          shl_assessments.json
    partialFile,          \* PARTIAL_OUTPUT_FILE  shl_assessments_partial.json
    stateFile,            \* METADATA_FILE        shl_crawl_state.json
    \* globals of the process
    all_assessments,
    processed_urls,
    processed_pages,
    crawl_state,
    \* position and locals of crawl_shl_assessments / crawl_section
    pc,
    section_type,
    current_url,
    page_num,
    empty_page_count,
    visited_urls,
    section_assessments,
    page_assessments,
    all_found_urls,
    item_idx,
    exit_reason,
    \* old_files/crawler.py: the attempts made by the running call of
    \* get_page_content and what the call gave ("idle" outside a call)
    attempts,
    fetch_result,
    \* bookkeeping of the environment and of the observed history
    runs,                 \* processes started so far
    kills,                \* signals and kills delivered so far
    fails,                \* failed fetches so far
    hist,                 \* observations the properties are stated on
    \* one call of a function of the crawler on a document of its own:
    \* the function, its arguments and what it returned
    call

vars == << catalog, outFile, partialFile, stateFile, all_assessments,
           processed_urls, processed_pages, crawl_state, pc, section_type,
           current_url, page_num, empty_page_count, visited_urls,
           section_assessments, page_assessments, all_found_urls, item_idx,
           exit_reason, attempts, fetch_result, runs, kills, fails, hist, call >>

----------------------------------------------------------------------------
\* Bounds of the model
MaxRuns == 3
MaxKills == 1
MaxFails == 4
MaxPageIdx == 11

\* Program constants
PageSize == 12
max_empty_pages == 3
max_revisits == 2
BatchSize == 10
LastPageThreshold == 10
HighStart == 500
JumpSize == 24

----------------------------------------------------------------------------
\* URLs of listing pages: CATALOG_URL?type=<type>[&start=<start>]
NoStart == -1
INDIVIDUAL_TYPE == "1"
PRE_PACKAGED_TYPE == "2"
Sections == {"pre-packaged", "individual"}
TypeOf_swapped(sec) == IF sec = "pre-packaged" THEN "1" ELSE "2"

\* PRE_PACKAGED_TYPE for 'pre-packaged', INDIVIDUAL_TYPE for 'individual'
TypeOf(sec) == IF sec = "pre-packaged" THEN PRE_PACKAGED_TYPE ELSE INDIVIDUAL_TYPE

MaxStart == PageSize * MaxPageIdx
Starts == {NoStart} \cup {PageSize * k : k \in 0..MaxPageIdx}
Urls == [type : {INDIVIDUAL_TYPE, PRE_PACKAGED_TYPE}, start : Starts]
None == [type |-> "", start |-> NoStart]
Url(t, s) == [type |-> t, start |-> s]
StartUrl(sec) == Url(TypeOf(sec), NoStart)

\* 'start' in parse_qs(urlparse(url).query)
HasStart(url) == url.start # NoStart
\* query_params['start'] = [str(start + n)], optionally with the type forced
AddStart(url, n) == [url EXCEPT !.start = url.start + n]
InRange(url) == url = None \/ url.start <= MaxStart

----------------------------------------------------------------------------
\* Items (assessment URLs).  Preloaded holds the records of a dataset file
\* left by an earlier crawl: BatchSize - 1 of them, so that the next append
\* reaches a multiple of BatchSize.
OldBase == 100

\* A valid same-origin anchor of a listing page: the item it points to,
\* whether it has an enclosing row, and what the row shows: the two circles
\* (Remote Testing, Adaptive/IRT; TRUE for the class -yes) and the
\* characters of the test-type text.
Anchor(i, row, remote, adaptive, letters) ==
    [url |-> i, row |-> row, remote |-> remote, adaptive |-> adaptive,
     letters |-> letters]
A(i) == Anchor(i, TRUE, FALSE, FALSE, <<>>)
Bare(i) == Anchor(i, FALSE, FALSE, FALSE, <<>>)

\* type_mapping of the letter codes
Vocabulary ==
    {"Ability", "Behavioral", "Cognitive", "Knowledge", "Personality", "Situational"}
Mapped(letter) == letter \in {"A", "B", "C", "K", "P", "S"}
type_mapping(letter) ==
    CASE letter = "A" -> "Ability"
      [] letter = "B" -> "Behavioral"
      [] letter = "C" -> "Cognitive"
      [] letter = "K" -> "Knowledge"
      [] letter = "P" -> "Personality"
      [] letter = "S" -> "Situational"

InSeq(x, seq) == \E k \in 1..Len(seq) : seq[k] = x

\* the loop over the letters of the test-type text of a row in
\* script_manus.py: every mapped letter appends its label
RECURSIVE listing_test_types(_, _)
listing_test_types(text, acc) ==
    IF text = <<>> THEN acc
    ELSE listing_test_types(Tail(text),
                            IF Mapped(Head(text))
                            THEN Append(acc, type_mapping(Head(text)))
                            ELSE acc)

\* the same loop with the test that the label is not in the list yet
\* (detail page of script_manus.py, row of crawler.py)
RECURSIVE unique_test_types(_, _)
unique_test_types(text, acc) ==
    IF text = <<>> THEN acc
    ELSE unique_test_types(Tail(text),
                           IF Mapped(Head(text)) /\ ~InSeq(type_mapping(Head(text)), acc)
                           THEN Append(acc, type_mapping(Head(text)))
                           ELSE acc)

\* None as the value of a field of a record
NoValue == "None"
YesNo(b) == IF b THEN "Yes" ELSE "No"

\* the stub extract_assessment_links of script_manus.py builds from an
\* anchor with a row; the name stands for the anchor text
assessment_stub(a) ==
    [name |-> a.url, url |-> a.url,
     remote_testing_support |-> YesNo(a.remote),
     adaptive_irt_support |-> YesNo(a.adaptive),
     duration |-> NoValue,
     test_types |-> listing_test_types(a.letters, <<>>),
     description |-> NoValue]

\* the stub extract_assessment_links of crawler.py builds: with flags
\* Unknown when the anchor has no row
crawler_assessment_stub(a) ==
    IF ~a.row
    THEN [name |-> a.url, url |-> a.url, remote_testing_support |-> "Unknown",
          adaptive_irt_support |-> "Unknown", duration |-> NoValue,
          test_types |-> <<>>, description |-> NoValue]
    ELSE [name |-> a.url, url |-> a.url,
          remote_testing_support |-> YesNo(a.remote),
          adaptive_irt_support |-> YesNo(a.adaptive),
          duration |-> NoValue,
          test_types |-> unique_test_types(a.letters, <<>>),
          description |-> NoValue]

Record(i) == assessment_stub(A(i))
Preloaded == [k \in 1..(BatchSize - 1) |-> Record(OldBase + k)]

RECURSIVE UrlsOf(_)
UrlsOf(recs) == IF recs = <<>> THEN {} ELSE {Head(recs).url} \cup UrlsOf(Tail(recs))

\* A parsed page.  container[sec] says how extract_assessment_links finds
\* the section: by its heading ("header"), by the type marker in the page
\* text ("marker") or not at all ("none"); anchors[sec] are the valid
\* same-origin anchors inside it, each with or without an enclosing row;
\* text is the kind of phrase the page text holds; link is the href of the
\* Next anchor (NoLink: no such anchor, NoHref: an anchor without href).  Which URLs the network
\* may fail on is part of a catalog (Flaky).
NoLink == -2
NoHref == -3
\* An anchor the pagination code looks for: found or not, with or without an
\* href, the URL its href resolves to (which may carry another type than
\* the page, or none), and whether it is marked disabled.
NoType == "absent"
NoAnchor == [found |-> FALSE, has_href |-> FALSE, href |-> None, disabled |-> FALSE]
Hrefless == [found |-> TRUE, has_href |-> FALSE, href |-> None, disabled |-> FALSE]
Href(t, s) == [found |-> TRUE, has_href |-> TRUE, href |-> Url(t, s), disabled |-> FALSE]
Disabled(a) == [a EXCEPT !.disabled = TRUE]
\* the Next anchor of a catalog page: its href carries the type of the page
LinkAnchor(sec, link) ==
    IF link = NoLink THEN NoAnchor
    ELSE IF link = NoHref THEN Hrefless
    ELSE Href(TypeOf(sec), link)

\* by_rel, by_text, by_class and after_active are the anchors the searches
\* of handle_pagination give: rel="next" (crawler.py only), text "Next",
\* a next/arrow/forward class, and the sibling that follows the anchor of
\* the active page (script_manus.py only).  A catalog page has at most the
\* anchor with the text "Next".
Page(sec, cont, anchors, text, link) ==
    [container |-> [s \in Sections |-> IF s = sec THEN cont ELSE "none"],
     anchors   |-> [s \in Sections |-> IF s = sec THEN anchors ELSE <<>>],
     text |-> text, by_rel |-> NoAnchor, by_text |-> LinkAnchor(sec, link),
     by_class |-> NoAnchor, after_active |-> NoAnchor]
EmptyPage(sec) == Page(sec, "header", <<>>, "plain", NoLink)
MainPage(pre, ind) ==
    [container |-> [s \in Sections |-> "header"],
     anchors   |-> [s \in Sections |-> IF s = "pre-packaged" THEN pre ELSE ind],
     text |-> "plain", by_rel |-> NoAnchor, by_text |-> NoAnchor,
     by_class |-> NoAnchor, after_active |-> NoAnchor]

SecOf(url) == IF url.type = PRE_PACKAGED_TYPE THEN "pre-packaged" ELSE "individual"

\* Catalog A: two short sections; a duplicated anchor, an item listed in
\* both sections, a rate-limited page, an explicit "no results" page and a
\* last page whose Next link points to itself.
CatalogA ==
    [main |-> MainPage(<<A(1)>>, <<A(4)>>),
     page |-> [u \in Urls |->
        LET sec == SecOf(u) IN
        IF sec = "pre-packaged" THEN
            CASE u.start = NoStart -> Page(sec, "header", <<A(1), A(1), A(2)>>, "plain", NoLink)
              [] u.start = 12 -> Page(sec, "header", <<A(3)>>, "plain", 24)
              [] u.start = 24 -> Page(sec, "header", <<>>, "noresults", NoLink)
              [] OTHER -> EmptyPage(sec)
        ELSE
            CASE u.start = NoStart -> Page(sec, "header", <<A(2), A(4)>>, "plain", NoLink)
              [] u.start = 12 -> Page(sec, "header", <<>>, "ratelimit", NoLink)
              [] u.start = 24 -> Page(sec, "header", <<A(4)>>, "plain", 24)
              [] OTHER -> EmptyPage(sec)]]

\* Catalog B: Next links of the pre-packaged section lead back to an earlier
\* page; the individual section is empty from its first page on.
CatalogB ==
    [main |-> MainPage(<<>>, <<>>),
     page |-> [u \in Urls |->
        LET sec == SecOf(u) IN
        IF sec = "pre-packaged" THEN
            CASE u.start = NoStart -> Page(sec, "header", <<A(1)>>, "plain", NoLink)
              [] u.start = 12 -> Page(sec, "header", <<A(2)>>, "plain", NoLink)
              [] u.start = 24 -> Page(sec, "header", <<A(3)>>, "plain", 12)
              [] u.start = 36 -> Page(sec, "header", <<A(4)>>, "plain", 12)
              [] u.start = 48 -> Page(sec, "header", <<>>, "plain", 12)
              [] u.start = 60 -> Page(sec, "header", <<A(1)>>, "plain", 12)
              [] u.start = 72 -> Page(sec, "header", <<>>, "noresults", NoLink)
              [] OTHER -> EmptyPage(sec)
        ELSE EmptyPage(sec)]]

\* Catalog C: pages without a section heading, an anchor without a row, an
\* anchor of an item already in the dataset file, a Next anchor without
\* href.
CatalogC ==
    [main |-> MainPage(<<A(OldBase + 1), A(1)>>, <<A(1), A(2)>>),
     page |-> [u \in Urls |->
        LET sec == SecOf(u) IN
        IF sec = "pre-packaged" THEN
            CASE u.start = NoStart -> Page(sec, "marker", <<A(OldBase + 1), A(1)>>, "plain", NoHref)
              [] u.start = 12 -> Page(sec, "none", <<A(2)>>, "plain", 24)
              [] u.start = 24 -> Page(sec, "marker", <<Bare(3), A(2)>>, "plain", NoHref)
              [] OTHER -> EmptyPage(sec)
        ELSE
            CASE u.start = NoStart -> Page(sec, "header", <<A(3), A(4)>>, "plain", NoLink)
              [] u.start = 12 -> Page(sec, "header", <<>>, "noresults", NoLink)
              [] OTHER -> EmptyPage(sec)]]

\* The listing URLs whose fetch may fail (the fetch of CATALOG_URL may fail
\* in every catalog): the first page of either section in A, a page the
\* Next links lead back to in B, three pages in a row in C.
Flaky(c, u) ==
    CASE c = "A" -> u.start = NoStart
      [] c = "B" -> u.type = PRE_PACKAGED_TYPE /\ u.start = 24
      [] c = "D" -> FALSE
      [] OTHER -> u.type = PRE_PACKAGED_TYPE /\ u.start \in {12, 24, 36}

\* Catalog D: a finite catalog of one item whose listing answers every
\* start offset with a page that lists that item and carries no Next link.
CatalogD ==
    [main |-> MainPage(<<A(1)>>, <<A(1)>>),
     page |-> [u \in Urls |-> Page(SecOf(u), "header", <<A(1)>>, "plain", NoLink)]]

Catalogs == {"A", "B", "C"}
CatalogOf(c) ==
    CASE c = "A" -> CatalogA [] c = "B" -> CatalogB [] c = "D" -> CatalogD
      [] OTHER -> CatalogC
\* What get_page_content parses when the fetch of a listing URL, or of
\* CATALOG_URL itself, succeeds.
PageAt(c, u) == CatalogOf(c).page[u]
MainPageOf(c) == CatalogOf(c).main
\* The detail page of an item: in every catalog the page of item 3 cannot
\* be fetched.
\* A parsed detail page (ok: the fetch gave a document).  description is
\* the content of the description meta tag (NoValue: no such tag).  The page
\* text is a sequence of phrases, each a numeric range ("15-20 minutes"), a
\* single value ("30 minutes") or a short text without number ("Untimed"),
\* separated by punctuation: section holds the phrases that follow the
\* label "Assessment length" inside its enclosing element (has_section: the
\* label and the element exist), rest the phrases outside it, section_first
\* says which of the two comes first.  remote and adaptive say what the page
\* holds on the flag: nothing, its label, its label with a "yes" in the same
\* element, or one of the keywords of crawler.py.  type_text holds the
\* characters of the "Test Type" section, measures the keywords of the
\* "What it measures" section in the order of the text.
PlainDetail ==
    [ok |-> TRUE, description |-> "text", has_section |-> FALSE,
     section |-> <<>>, rest |-> <<>>, section_first |-> TRUE,
     remote |-> "none", adaptive |-> "none", type_text |-> <<>>,
     measures |-> <<>>]
DetailPageAt(c, i) == [PlainDetail EXCEPT !.ok = i # 3]
page_text(soup) ==
    IF ~soup.has_section THEN soup.rest
    ELSE IF soup.section_first THEN soup.section \o soup.rest
    ELSE soup.rest \o soup.section

----------------------------------------------------------------------------
\* ScanAnchors without line 339: the URL of a new stub is not marked
\* processed
RECURSIVE ScanAnchors_unmarked(_, _, _, _)
ScanAnchors_unmarked(anchors, purls, acc, found) ==
    IF anchors = <<>>
    THEN [assessments |-> acc, all_found_urls |-> found, processed_urls |-> purls]
    ELSE LET a == Head(anchors) IN
         IF a.url \in purls
         THEN ScanAnchors_unmarked(Tail(anchors), purls, acc, Append(found, a.url))
         ELSE IF ~a.row
         THEN ScanAnchors_unmarked(Tail(anchors), purls \cup {a.url}, acc,
                                   Append(found, a.url))
         ELSE ScanAnchors_unmarked(Tail(anchors), purls,
                                   Append(acc, assessment_stub(a)), Append(found, a.url))

\* extract_assessment_links: one pass over the anchors of the section.
\* purls is the global processed_urls, which the function updates.
RECURSIVE ScanAnchors(_, _, _, _)
ScanAnchors(anchors, purls, acc, found) ==
    IF anchors = <<>>
    THEN [assessments |-> acc, all_found_urls |-> found, processed_urls |-> purls]
    ELSE LET a == Head(anchors) IN
         IF a.url \in purls
         THEN ScanAnchors(Tail(anchors), purls, acc, Append(found, a.url))
         ELSE IF ~a.row
         THEN ScanAnchors(Tail(anchors), purls \cup {a.url}, acc, Append(found, a.url))
         ELSE ScanAnchors(Tail(anchors), purls \cup {a.url},
                          Append(acc, assessment_stub(a)), Append(found, a.url))

\* The anchors of the section with the row line 342 finds for each: inside
\* the div of a section heading, link.find_parent('div') finds a row for
\* every anchor; when the whole page is searched (type marker) an anchor
\* may have neither tr nor div around it.
SectionAnchors(soup, sec) ==
    IF soup.container[sec] = "header"
    THEN [k \in 1..Len(soup.anchors[sec]) |-> [soup.anchors[sec][k] EXCEPT !.row = TRUE]]
    ELSE soup.anchors[sec]

extract_assessment_links_unchecked(soup, sec, purls) ==
    IF soup.container[sec] = "none"
    THEN [assessments |-> <<>>, all_found_urls |-> <<>>, processed_urls |-> purls]
    ELSE LET r == ScanAnchors(SectionAnchors(soup, sec), {}, <<>>, <<>>)
         IN [r EXCEPT !.processed_urls = purls \cup @]

extract_assessment_links_whole_page(soup, sec, purls) ==
    ScanAnchors(SectionAnchors(soup, sec), purls, <<>>, <<>>)

extract_assessment_links(soup, sec, purls) ==
    IF soup.container[sec] = "none"
    THEN [assessments |-> <<>>, all_found_urls |-> <<>>, processed_urls |-> purls]
    ELSE ScanAnchors(SectionAnchors(soup, sec), purls, <<>>, <<>>)

\* handle_pagination: the next page URL, or None.
\* Methods 1 to 3 take the first anchor found, with or without an href (a
\* found Tag is true); method 4, the continuation of the start offset, runs
\* only when none was found.
next_link(soup) ==
    IF soup.by_text.found THEN soup.by_text
    ELSE IF soup.by_class.found THEN soup.by_class
    ELSE soup.after_active

\* a start parameter that int() rejects
BadStart == -4

\* Method 4: the URL made from the start parameter of the current URL;
\* returned says whether the method returned (a URL or None) or fell
\* through (the start parameter is no number).
increment_start(soup, url, solution_type) ==
    IF HasStart(url)
    THEN IF url.start = BadStart
         THEN [returned |-> FALSE, url |-> None]
         ELSE IF url.start > HighStart /\ soup.text = "end"
         THEN [returned |-> TRUE, url |-> None]
         ELSE LET next_url == Url(solution_type, url.start + PageSize) IN
              [returned |-> TRUE, url |-> IF next_url = url THEN None ELSE next_url]
    ELSE [returned |-> TRUE, url |-> Url(solution_type, PageSize)]

\* the href of the anchor with the type parameter set, None when that is the
\* current URL
process_next_link(link, url, solution_type) ==
    LET next_url == Url(solution_type, link.href.start) IN
    IF next_url = url THEN None ELSE next_url

handle_pagination(soup, url, solution_type) ==
    LET link == next_link(soup)
        method4 == increment_start(soup, url, solution_type)
    IN  IF ~link.found /\ method4.returned
        THEN method4.url
        ELSE IF link.found /\ link.has_href
        THEN process_next_link(link, url, solution_type)
        ELSE IF ~HasStart(url)
        THEN [url EXCEPT !.start = PageSize]
        ELSE None

----------------------------------------------------------------------------
\* crawl_state and the files
InitialCrawlState ==
    [last_crawl_time |-> FALSE,
     pre_packaged_last_page |-> None, pre_packaged_page_num |-> 1,
     individual_last_page |-> None, individual_page_num |-> 1,
     completed |-> FALSE,
     processed_pages |-> {}]

LastPage(cs, sec) ==
    IF sec = "pre-packaged" THEN cs.pre_packaged_last_page ELSE cs.individual_last_page
PageNum(cs, sec) ==
    IF sec = "pre-packaged" THEN cs.pre_packaged_page_num ELSE cs.individual_page_num
SetLastPage_skipped(cs, sec, url, num) == cs

\* crawl_state[<section>_last_page] = url; crawl_state[<section>_page_num] = num
SetLastPage(cs, sec, url, num) ==
    IF sec = "pre-packaged"
    THEN [cs EXCEPT !.pre_packaged_last_page = url, !.pre_packaged_page_num = num]
    ELSE [cs EXCEPT !.individual_last_page = url, !.individual_page_num = num]
MarkComplete_kept(cs, sec) == cs

\* crawl_state[<section>_last_page] = None; crawl_state[<section>_page_num] = 1
MarkComplete(cs, sec) == SetLastPage(cs, sec, None, 1)

\* save_crawl_state: the record it dumps (and leaves in crawl_state)
save_crawl_state(cs, pages) ==
    [cs EXCEPT !.last_crawl_time = TRUE, !.processed_pages = pages]

NoFile == [exists |-> FALSE]
File(content) == [exists |-> TRUE, content |-> content]


----------------------------------------------------------------------------
\* Observations kept beside the program state:
\*   flushed      urls this process (or, until it takes its first step, the
\*                process before it) wrote to the partial file
\*   interrupted  the process before this one ended by a signal or a kill
\*   resume_url   <section>_last_page of the state file at start-up
\*   entry_url    current_url with which crawl_section entered its loop
\*   fetched      listing-page fetches per URL in this call of crawl_section
\*   rate_limited the URL whose fetch met the rate-limit branch and awaits
\*                its retry
\*   failed_url   the URL whose failed fetch made crawl_section stop
\*   run_fresh    this process found neither dataset nor state file
\*   run_failed   a fetch of this process failed
\*   after_completed, prev_len   this process follows one that finished, with
\*                no failed fetch, and wrote prev_len records
\*   ref_set, ref_urls   urls of the dataset an uninterrupted run from no
\*                files wrote, recorded when the files were deleted after it
\*   responses    what the requests of the running call of get_page_content
\*                of old_files/crawler.py met, in order
\*   returned     the sections whose call of crawl_section returned in this
\*                process
\*   signalled    the process before this one ended in signal_handler
\*   excepted     the process before this one ended in the except clause of
\*                crawl_shl_assessments
\*   ever         urls that were in all_assessments of this or an earlier
\*                process since the files were last deleted or a process was
\*                killed without notice
\*   saved_len    size of the dataset this process loaded or last wrote to
\*                the partial file
NoCounts == [u \in Urls |-> 0]
NoUrls == [s \in Sections |-> None]
\* no function has been called on a document of its own
NoCall == [fn |-> "none"]

InitialHist ==
    [flushed |-> {}, interrupted |-> FALSE,
     resume_url |-> NoUrls, entry_url |-> NoUrls,
     fetched |-> NoCounts, rate_limited |-> None, failed_url |-> None,
     run_fresh |-> FALSE, run_failed |-> FALSE,
     after_completed |-> FALSE, prev_len |-> 0,
     ref_set |-> FALSE, ref_urls |-> {},
     responses |-> <<>>, returned |-> {}, signalled |-> FALSE,
     saved_len |-> 0, excepted |-> FALSE, ever |-> {}]

Init ==
    /\ catalog \in Catalogs
    /\ outFile \in {NoFile, File(Preloaded)}
    /\ partialFile = NoFile
    /\ stateFile = NoFile
    /\ all_assessments = <<>>
    /\ processed_urls = {}
    /\ processed_pages = {}
    /\ crawl_state = InitialCrawlState
    /\ pc = "off"
    /\ section_type = "pre-packaged"
    /\ current_url = None
    /\ page_num = 1
    /\ empty_page_count = 0
    /\ visited_urls = NoCounts
    /\ section_assessments = <<>>
    /\ page_assessments = <<>>
    /\ all_found_urls = <<>>
    /\ item_idx = 1
    /\ exit_reason = "none"
    /\ attempts = 0
    /\ fetch_result = "idle"
    /\ runs = 0
    /\ kills = 0
    /\ fails = 0
    /\ hist = InitialHist
    /\ call = NoCall

files == << outFile, partialFile, stateFile >>
globals == << all_assessments, processed_urls, processed_pages, crawl_state >>
locals == << section_type, current_url, page_num, empty_page_count, visited_urls,
             section_assessments, page_assessments, all_found_urls, item_idx,
             exit_reason >>
counters == << runs, kills, fails >>

load_existing_assessments_nothing(file) == <<>>

\* load_existing_assessments: the dataset the process starts with
load_existing_assessments(file) == IF file.exists THEN file.content ELSE <<>>
\* load_crawl_state: crawl_state.update(loaded_state)
load_crawl_state(file) == IF file.exists THEN file.content ELSE InitialCrawlState

\* crawl_shl_assessments, lines 1106-1126: a new process loads the dataset
\* file and the state file, registers the signal handlers and resets
\* completed.
Start ==
    /\ pc \in {"off", "done"}
    /\ runs < MaxRuns
    /\ runs' = runs + 1
    /\ LET loaded == load_existing_assessments(outFile)
           cs == load_crawl_state(stateFile)
       IN /\ all_assessments' = loaded
          /\ processed_urls' = UrlsOf(loaded)
          /\ processed_pages' = cs.processed_pages
          /\ crawl_state' = [cs EXCEPT !.completed = FALSE]
          /\ hist' = [hist EXCEPT
                 !.resume_url = [s \in Sections |-> LastPage(cs, s)],
                 !.entry_url = NoUrls,
                 !.returned = {},
                 !.ever = @ \cup UrlsOf(loaded),
                 !.saved_len = Len(loaded),
                 !.run_fresh = ~outFile.exists /\ ~stateFile.exists,
                 !.run_failed = FALSE,
                 !.after_completed = (pc = "done" /\ ~hist.run_failed),
                 !.prev_len = IF pc = "done" THEN Len(outFile.content) ELSE 0]
    /\ pc' = "seed"
    /\ section_type' = "pre-packaged"
    /\ current_url' = None
    /\ page_num' = 1
    /\ empty_page_count' = 0
    /\ visited_urls' = NoCounts
    /\ section_assessments' = <<>>
    /\ page_assessments' = <<>>
    /\ all_found_urls' = <<>>
    /\ item_idx' = 1
    /\ exit_reason' = "none"
    /\ UNCHANGED << call, catalog, attempts, fetch_result, files, kills, fails >>

\* The observations of the process before are dropped at the first step of
\* this one.
Stepped(h) == [h EXCEPT !.flushed = {}, !.interrupted = FALSE, !.signalled = FALSE,
                        !.excepted = FALSE]

\* save_partial_results writes the whole dataset to the partial file and
\* then calls save_crawl_state.
Flushed(h, recs) == [h EXCEPT !.flushed = @ \cup UrlsOf(recs), !.saved_len = Len(recs)]

\* re.search of (\d+)\s*minutes|time\s*=\s*(\d+)|...: the leftmost number
\* that is followed by "minutes"; in "15-20 minutes" that number is 20
RECURSIVE first_minutes(_)
first_minutes(text) ==
    IF text = <<>> THEN NoValue
    ELSE IF Head(text) = "range" THEN "20 minutes"
    ELSE IF Head(text) = "single" THEN "30 minutes"
    ELSE first_minutes(Tail(text))

\* recheck_flag that sets the flag to what the page says
recheck_flag_overwrite(flag, evidence) == IF evidence = "label_yes" THEN "Yes" ELSE "No"

\* the second look at a flag: only a flag that is No is looked at, and only
\* set to Yes
recheck_flag(flag, evidence) ==
    IF flag = "No" /\ evidence = "label_yes" THEN "Yes" ELSE flag

\* extract_assessment_details: the stub itself when the fetch of the detail
\* page fails, the stub with the fields read from the page otherwise.
extract_assessment_details(assessment, soup) ==
    IF ~soup.ok THEN assessment
    ELSE LET in_section == IF soup.has_section THEN first_minutes(soup.section)
                           ELSE NoValue
             duration == IF in_section # NoValue THEN in_section
                         ELSE assessment.duration
             in_page == first_minutes(page_text(soup))
         IN  [assessment EXCEPT
                !.description = IF soup.description # NoValue
                                THEN soup.description ELSE @,
                !.duration = IF duration = NoValue /\ in_page # NoValue
                             THEN in_page ELSE duration,
                !.remote_testing_support = recheck_flag(@, soup.remote),
                !.adaptive_irt_support = recheck_flag(@, soup.adaptive),
                !.test_types = IF @ = <<>>
                               THEN unique_test_types(soup.type_text, <<>>)
                               ELSE @]

\* crawl_shl_assessments, lines 1130 and 1177-1178: a state file exists
\* (last_crawl_time is set), the main catalog page is not crawled.
SeedSkip ==
    /\ pc = "seed"
    /\ crawl_state.last_crawl_time
    /\ pc' = "section"
    /\ hist' = Stepped(hist)
    /\ UNCHANGED << call, catalog, attempts, fetch_result, files, globals, locals, counters >>

\* lines 1130-1135: fresh start, the fetch of CATALOG_URL fails.
SeedFetchFail ==
    /\ pc = "seed"
    /\ ~crawl_state.last_crawl_time
    /\ fails < MaxFails
    /\ fails' = fails + 1
    /\ pc' = "section"
    /\ hist' = [Stepped(hist) EXCEPT !.run_failed = TRUE]
    /\ UNCHANGED << call, catalog, attempts, fetch_result, files, globals, locals, runs, kills >>

\* lines 1130-1150: fresh start, both sections of the main page are
\* extracted, pre-packaged first.
SeedFetchOk ==
    /\ pc = "seed"
    /\ ~crawl_state.last_crawl_time
    /\ LET soup == MainPageOf(catalog)
           pre == extract_assessment_links(soup, "pre-packaged", processed_urls)
           ind == extract_assessment_links(soup, "individual", pre.processed_urls)
           main_page_assessments == pre.assessments \o ind.assessments
       IN /\ processed_urls' = ind.processed_urls
          /\ page_assessments' = main_page_assessments
          /\ item_idx' = 1
          /\ pc' = IF main_page_assessments # <<>> THEN "seed_items" ELSE "section"
    /\ hist' = Stepped(hist)
    /\ UNCHANGED << call, catalog, attempts, fetch_result, files, all_assessments, processed_pages, crawl_state,
                    section_type, current_url, page_num, empty_page_count,
                    visited_urls, section_assessments, all_found_urls,
                    exit_reason, counters >>

batch_due_never(n) == FALSE

\* lines 911 and 1169: len(all_assessments) % 10 == 0
batch_due(n) == (n % BatchSize) = 0

\* One turn of the loops of lines 1162-1170 and 903-912: enrich the stub,
\* append it, and save the partial results when the dataset size is a
\* multiple of 10.
AppendOne(in_section) ==
    LET assessment == page_assessments[item_idx]
        updated_assessment ==
            extract_assessment_details(assessment, DetailPageAt(catalog, assessment.url))
        appended == Append(all_assessments, updated_assessment)
        batch == batch_due(Len(appended))
        saved == save_crawl_state(crawl_state, processed_pages)
    IN /\ all_assessments' = appended
       /\ section_assessments' = IF in_section
                                 THEN Append(section_assessments, updated_assessment)
                                 ELSE section_assessments
       /\ item_idx' = item_idx + 1
       /\ partialFile' = IF batch THEN File(appended) ELSE partialFile
       /\ crawl_state' = IF batch THEN saved ELSE crawl_state
       /\ stateFile' = IF batch THEN File(saved) ELSE stateFile
       /\ hist' = [(IF batch THEN Flushed(hist, appended) ELSE hist)
                       EXCEPT !.ever = @ \cup {updated_assessment.url}]
       /\ UNCHANGED << call, catalog, attempts, fetch_result, outFile, processed_urls, processed_pages,
                       section_type, current_url, page_num, empty_page_count,
                       visited_urls, page_assessments, all_found_urls,
                       exit_reason, counters >>

ProcessMainPageItem ==
    /\ pc = "seed_items"
    /\ item_idx <= Len(page_assessments)
    /\ AppendOne(FALSE)
    /\ pc' = IF item_idx = Len(page_assessments) THEN "section" ELSE "seed_items"

\* crawl_shl_assessments, lines 1186-1198 and 1214-1226: a section without
\* a last page in crawl_state starts at its first page, and the state is
\* saved; then crawl_section is called.
BeginSection ==
    /\ pc = "section"
    /\ LET fresh == LastPage(crawl_state, section_type) = None
           saved == save_crawl_state(
                        SetLastPage(crawl_state, section_type, StartUrl(section_type), 1),
                        processed_pages)
       IN /\ crawl_state' = IF fresh THEN saved ELSE crawl_state
          /\ stateFile' = IF fresh THEN File(saved) ELSE stateFile
    /\ pc' = "crawl_section"
    /\ UNCHANGED << call, catalog, attempts, fetch_result, outFile, partialFile, all_assessments, processed_urls,
                    processed_pages, locals, counters, hist >>

resume_point_first_page(cs, sec) == [url |-> StartUrl(sec), num |-> 1]

\* The url and page number crawl_section starts with, lines 674-691.
resume_point(cs, sec) ==
    IF LastPage(cs, sec) # None
    THEN [url |-> LastPage(cs, sec), num |-> PageNum(cs, sec)]
    ELSE [url |-> StartUrl(sec), num |-> 1]

\* crawl_section, lines 660-693.
EnterCrawlSection ==
    /\ pc = "crawl_section"
    /\ LET at == resume_point(crawl_state, section_type)
       IN /\ current_url' = at.url
          /\ page_num' = at.num
          /\ hist' = [hist EXCEPT !.entry_url[section_type] = at.url,
                                  !.fetched = NoCounts,
                                  !.rate_limited = None,
                                  !.failed_url = None]
    /\ empty_page_count' = 0
    /\ visited_urls' = NoCounts
    /\ section_assessments' = <<>>
    /\ page_assessments' = <<>>
    /\ all_found_urls' = <<>>
    /\ item_idx' = 1
    /\ exit_reason' = "none"
    /\ pc' = "loop"
    /\ UNCHANGED << call, catalog, attempts, fetch_result, files, globals, section_type, counters >>

Visits_forgotten(visited, url) == 0

\* visited_urls.get(url, 0)
Visits(visited, url) == IF url \in Urls THEN visited[url] ELSE 0

already_processed_never(url, pages) == FALSE

\* crawl_section, line 697: current_url in processed_pages
already_processed(url, pages) == url \in pages

\* crawl_section, lines 695-765: the loop condition, the skip of a page
\* already in processed_pages, the visit count and the save of the state
\* before the fetch.
LoopTop ==
    /\ pc = "loop"
    /\ LET solution_type == TypeOf(section_type)
           done_cs == save_crawl_state(MarkComplete(crawl_state, section_type),
                                       processed_pages)
           count == Visits(visited_urls, current_url) + 1
           at_cs == save_crawl_state(
                        SetLastPage(crawl_state, section_type, current_url, page_num),
                        processed_pages)
       IN IF current_url = None
          THEN /\ pc' = "epilogue"
               /\ UNCHANGED << current_url, page_num, visited_urls, crawl_state,
                               stateFile >>
          ELSE IF already_processed(current_url, processed_pages)
          THEN IF HasStart(current_url)
               THEN /\ current_url' = Url(solution_type, current_url.start + PageSize)
                    /\ InRange(current_url')
                    /\ page_num' = page_num + 1
                    /\ pc' = "loop"
                    /\ UNCHANGED << visited_urls, crawl_state, stateFile >>
               ELSE /\ crawl_state' = done_cs
                    /\ stateFile' = File(done_cs)
                    /\ pc' = "epilogue"
                    /\ UNCHANGED << current_url, page_num, visited_urls >>
          ELSE /\ visited_urls' = [visited_urls EXCEPT ![current_url] = count]
               /\ IF count > max_revisits
                  THEN /\ crawl_state' = done_cs
                       /\ stateFile' = File(done_cs)
                       /\ pc' = "epilogue"
                  ELSE /\ crawl_state' = at_cs
                       /\ stateFile' = File(at_cs)
                       /\ pc' = "fetch"
               /\ UNCHANGED << current_url, page_num >>
    /\ UNCHANGED << call, catalog, attempts, fetch_result, outFile, partialFile, all_assessments, processed_urls,
                    processed_pages, section_type, empty_page_count,
                    section_assessments, page_assessments, all_found_urls,
                    item_idx, exit_reason, counters, hist >>

Fetched(h, url) ==
    [h EXCEPT !.fetched[url] = @ + 1, !.rate_limited = None]

\* crawl_section, lines 767-799: get_page_content returned None.
FetchFail ==
    /\ pc = "fetch"
    /\ Flaky(catalog, current_url)
    /\ fails < MaxFails
    /\ fails' = fails + 1
    /\ empty_page_count' = empty_page_count + 1
    /\ IF empty_page_count' >= max_empty_pages \/ ~HasStart(current_url)
       THEN /\ pc' = "epilogue"
            /\ exit_reason' = "fetch_failed"
            /\ hist' = [Fetched(hist, current_url) EXCEPT
                            !.run_failed = TRUE, !.failed_url = current_url]
            /\ UNCHANGED << current_url, page_num >>
       ELSE /\ current_url' = AddStart(current_url, PageSize)
            /\ InRange(current_url')
            /\ page_num' = page_num + 1
            /\ pc' = "loop"
            /\ hist' = [Fetched(hist, current_url) EXCEPT !.run_failed = TRUE]
            /\ UNCHANGED exit_reason
    /\ UNCHANGED << call, catalog, attempts, fetch_result, files, globals, section_type, visited_urls,
                    section_assessments, page_assessments, all_found_urls,
                    item_idx, runs, kills >>

no_results_indicated_never(soup) == FALSE

\* crawl_section, lines 857-863: the page text holds one of the phrases of
\* no_results_indicators.
no_results_indicated(soup) == soup.text = "noresults"

\* crawl_section, lines 801-887: the page was fetched; its links are
\* extracted, the page is added to processed_pages, and a page without any
\* item link is examined.
FetchOk ==
    /\ pc = "fetch"
    /\ LET soup == PageAt(catalog, current_url)
           solution_type == TypeOf(section_type)
           links == extract_assessment_links(soup, section_type, processed_urls)
           pages == processed_pages \cup {current_url}
           done_cs == save_crawl_state(MarkComplete(crawl_state, section_type), pages)
           empty == Len(links.all_found_urls) = 0
       IN /\ processed_urls' = links.processed_urls
          /\ processed_pages' = pages
          /\ page_assessments' = links.assessments
          /\ all_found_urls' = links.all_found_urls
          /\ item_idx' = 1
          /\ IF empty /\ soup.text = "ratelimit"
             THEN /\ pc' = "loop"
                  /\ empty_page_count' = 0
                  /\ hist' = [Fetched(hist, current_url) EXCEPT
                                  !.rate_limited = current_url]
                  /\ UNCHANGED << current_url, crawl_state, stateFile, exit_reason >>
             ELSE IF empty /\ current_url.type # solution_type
             THEN /\ pc' = "loop"
                  /\ empty_page_count' = 0
                  /\ current_url' = Url(solution_type, current_url.start)
                  /\ hist' = Fetched(hist, current_url)
                  /\ UNCHANGED << crawl_state, stateFile, exit_reason >>
             ELSE IF empty /\ no_results_indicated(soup)
             THEN /\ pc' = "epilogue"
                  /\ empty_page_count' = 0
                  /\ hist' = Fetched(hist, current_url)
                  /\ exit_reason' = "no_results"
                  /\ UNCHANGED << current_url, crawl_state, stateFile >>
             ELSE IF empty /\ page_num > LastPageThreshold
             THEN /\ pc' = "epilogue"
                  /\ empty_page_count' = 0
                  /\ crawl_state' = done_cs
                  /\ stateFile' = File(done_cs)
                  /\ hist' = Fetched(hist, current_url)
                  /\ UNCHANGED << current_url, exit_reason >>
             ELSE /\ empty_page_count' = IF empty THEN 1 ELSE 0
                  /\ pc' = IF empty /\ empty_page_count' >= max_empty_pages
                           THEN "epilogue"
                           ELSE IF links.assessments # <<>> THEN "items"
                           ELSE "paginate"
                  /\ hist' = Fetched(hist, current_url)
                  /\ UNCHANGED << current_url, crawl_state, stateFile, exit_reason >>
    /\ UNCHANGED << call, catalog, attempts, fetch_result, outFile, partialFile, all_assessments, section_type,
                    page_num, visited_urls, section_assessments,
                    counters >>

\* crawl_section, lines 903-912.
ProcessItem ==
    /\ pc = "items"
    /\ item_idx <= Len(page_assessments)
    /\ AppendOne(TRUE)
    /\ pc' = IF item_idx = Len(page_assessments) THEN "paginate" ELSE "items"

\* crawl_section, lines 921-1046: what the search for the next page decides.
\* The result is [stop, mark, url]: stop says the loop is left by break,
\* mark that the section is marked complete and the state saved before it,
\* url is the next value of current_url otherwise.
next_page_decision(soup, url, num, sec, empty_count, found, stubs, collected, visited) ==
    LET solution_type == TypeOf(sec)
        Break(mark) == [stop |-> TRUE, mark |-> mark, url |-> None]
        Go(u) == [stop |-> FALSE, mark |-> FALSE, url |-> u]
        found_next == handle_pagination(soup, url, solution_type)
        looping == found_next # None /\ Visits(visited, found_next) >= max_revisits
        force_next_url == AddStart(url, JumpSize)
        after_loop == IF looping THEN force_next_url ELSE found_next
        forced == IF after_loop = None /\ num = 1 /\ Len(stubs) > 0
                  THEN Url(solution_type, PageSize)
                  ELSE after_loop
        last_resort == IF forced = None /\ empty_count > 0
                       THEN AddStart(url, PageSize)
                       ELSE forced
    IN IF empty_count > 1 \/ (Len(found) = 0 /\ num > LastPageThreshold)
       THEN Break(TRUE)
       ELSE IF looping /\ (~HasStart(url) \/ force_next_url = url
                                          \/ force_next_url = found_next)
       THEN Break(TRUE)
       ELSE IF forced = None /\ Len(collected) > 0 /\ empty_count = 0
       THEN Break(TRUE)
       ELSE IF forced = None /\ empty_count > 0 /\ ~HasStart(url)
       THEN Break(FALSE)
       ELSE IF last_resort # None /\ Visits(visited, last_resort) >= max_revisits
       THEN Break(TRUE)
       ELSE Go(last_resort)

\* crawl_section, lines 921-1052.
Paginate ==
    /\ pc = "paginate"
    /\ LET d == next_page_decision(PageAt(catalog, current_url), current_url, page_num,
                    section_type, empty_page_count, all_found_urls, page_assessments,
                    section_assessments, visited_urls)
           done_cs == save_crawl_state(MarkComplete(crawl_state, section_type),
                                       processed_pages)
           saved == save_crawl_state(crawl_state, processed_pages)
       IN IF d.stop
          THEN /\ pc' = "epilogue"
               /\ exit_reason' = IF d.mark THEN "marked_complete" ELSE "no_next_page"
               /\ crawl_state' = IF d.mark THEN done_cs ELSE crawl_state
               /\ stateFile' = IF d.mark THEN File(done_cs) ELSE stateFile
               /\ UNCHANGED << current_url, page_num, partialFile, hist >>
          ELSE /\ current_url' = d.url
               /\ InRange(d.url)
               /\ page_num' = page_num + 1
               /\ partialFile' = File(all_assessments)
               /\ crawl_state' = saved
               /\ stateFile' = File(saved)
               /\ hist' = Flushed(hist, all_assessments)
               /\ pc' = "loop"
               /\ UNCHANGED exit_reason
    /\ UNCHANGED << call, catalog, attempts, fetch_result, outFile, all_assessments, processed_urls, processed_pages,
                    section_type, empty_page_count, visited_urls, section_assessments,
                    page_assessments, all_found_urls, item_idx, counters >>

\* crawl_section, lines 1065-1076: the section is always marked complete
\* before the function returns.
SectionEpilogue ==
    /\ pc = "epilogue"
    /\ LET done_cs == save_crawl_state(MarkComplete(crawl_state, section_type),
                                       processed_pages)
       IN /\ crawl_state' = done_cs
          /\ stateFile' = File(done_cs)
    /\ pc' = "returned"
    /\ hist' = [hist EXCEPT !.returned = @ \cup {section_type}]
    /\ UNCHANGED << call, catalog, attempts, fetch_result, outFile, partialFile, all_assessments, processed_urls,
                    processed_pages, locals, counters >>

\* crawl_shl_assessments, lines 1200-1207: after the pre-packaged section
\* the partial results are saved and the individual section is next.
AfterPrePackaged ==
    /\ pc = "returned"
    /\ section_type = "pre-packaged"
    /\ LET saved == save_crawl_state(crawl_state, processed_pages)
       IN /\ partialFile' = File(all_assessments)
          /\ crawl_state' = saved
          /\ stateFile' = File(saved)
    /\ hist' = Flushed(hist, all_assessments)
    /\ section_type' = "individual"
    /\ pc' = "section"
    /\ UNCHANGED << call, catalog, attempts, fetch_result, outFile, all_assessments, processed_urls, processed_pages,
                    current_url, page_num, empty_page_count, visited_urls,
                    section_assessments, page_assessments, all_found_urls, item_idx,
                    exit_reason, counters >>

\* crawl_shl_assessments, lines 1238-1240: both sections returned.
MarkCompleted ==
    /\ pc = "returned"
    /\ section_type = "individual"
    /\ LET saved == save_crawl_state([crawl_state EXCEPT !.completed = TRUE],
                                     processed_pages)
       IN /\ crawl_state' = saved
          /\ stateFile' = File(saved)
    /\ pc' = "write"
    /\ UNCHANGED << call, catalog, attempts, fetch_result, outFile, partialFile, all_assessments, processed_urls,
                    processed_pages, locals, counters, hist >>

\* crawl_shl_assessments, lines 1242-1246 and 1271: the dataset file is
\* written and the function returns.
WriteOutput ==
    /\ pc = "write"
    /\ outFile' = File(all_assessments)
    /\ pc' = "done"
    /\ UNCHANGED << call, catalog, attempts, fetch_result, partialFile, stateFile, globals, locals, counters, hist >>

\* The process is gone: nothing of its memory is left.
Gone ==
    /\ pc' = "off"
    /\ all_assessments' = <<>>
    /\ processed_urls' = {}
    /\ processed_pages' = {}
    /\ crawl_state' = InitialCrawlState
    /\ section_type' = "pre-packaged"
    /\ current_url' = None
    /\ page_num' = 1
    /\ empty_page_count' = 0
    /\ visited_urls' = NoCounts
    /\ section_assessments' = <<>>
    /\ page_assessments' = <<>>
    /\ all_found_urls' = <<>>
    /\ item_idx' = 1
    /\ exit_reason' = "none"

Running == pc \notin {"off", "done"}

Interrupt_unsaved ==
    /\ Running
    /\ kills < MaxKills
    /\ kills' = kills + 1
    /\ hist' = [hist EXCEPT !.interrupted = TRUE, !.fetched = NoCounts,
                            !.rate_limited = None, !.failed_url = None,
                            !.returned = {}, !.signalled = TRUE, !.saved_len = 0]
    /\ Gone
    /\ UNCHANGED << call, catalog, attempts, fetch_result, files, runs, fails >>

\* signal_handler, lines 235-249: SIGINT or SIGTERM after the handlers were
\* registered; save_partial_results, then sys.exit(0).
Interrupt ==
    /\ Running
    /\ kills < MaxKills
    /\ kills' = kills + 1
    /\ partialFile' = File(all_assessments)
    /\ stateFile' = File(save_crawl_state(crawl_state, processed_pages))
    /\ hist' = [Flushed(hist, all_assessments) EXCEPT
                    !.interrupted = TRUE, !.fetched = NoCounts,
                    !.rate_limited = None, !.failed_url = None,
                    !.returned = {}, !.signalled = TRUE, !.saved_len = 0]
    /\ Gone
    /\ UNCHANGED << call, catalog, attempts, fetch_result, outFile, runs, fails >>

UnexpectedException_unsaved ==
    /\ pc \in {"fetch", "items", "paginate"}
    /\ kills < MaxKills
    /\ kills' = kills + 1
    /\ hist' = [hist EXCEPT !.interrupted = TRUE, !.fetched = NoCounts,
                            !.rate_limited = None, !.failed_url = None,
                            !.returned = {}, !.excepted = TRUE, !.saved_len = 0]
    /\ Gone
    /\ UNCHANGED << call, catalog, attempts, fetch_result, files, runs, fails >>

\* crawl_shl_assessments, lines 1273-1277: an exception raised while
\* crawl_section works on a page (by get_page_content, by
\* extract_assessment_links, by extract_assessment_details or by
\* handle_pagination, lines 767-1040) leaves crawl_section, is caught,
\* save_partial_results is called and the function returns.
UnexpectedException ==
    /\ pc \in {"fetch", "items", "paginate"}
    /\ kills < MaxKills
    /\ kills' = kills + 1
    /\ partialFile' = File(all_assessments)
    /\ stateFile' = File(save_crawl_state(crawl_state, processed_pages))
    /\ hist' = [Flushed(hist, all_assessments) EXCEPT
                    !.interrupted = TRUE, !.fetched = NoCounts,
                    !.rate_limited = None, !.failed_url = None,
                    !.returned = {}, !.excepted = TRUE, !.saved_len = 0]
    /\ Gone
    /\ UNCHANGED << call, catalog, attempts, fetch_result, outFile, runs, fails >>

\* The process is killed without notice (SIGKILL, power loss): no handler
\* runs.
Kill ==
    /\ Running
    /\ kills < MaxKills
    /\ kills' = kills + 1
    /\ hist' = [hist EXCEPT !.interrupted = TRUE, !.fetched = NoCounts,
                            !.rate_limited = None, !.failed_url = None,
                            !.returned = {}, !.signalled = FALSE, !.saved_len = 0,
                            !.ever = {}]
    /\ Gone
    /\ UNCHANGED << call, catalog, attempts, fetch_result, files, runs, fails >>

\* The dataset, partial and state files are deleted after a run that
\* started from no files, was not interrupted and met no failed fetch; the
\* urls it wrote are kept for comparison.  load_existing_assessments and
\* load_crawl_state then find no file (lines 182-184, 216-218).
DeleteFiles ==
    /\ pc = "done"
    /\ ~hist.ref_set
    /\ hist.run_fresh /\ ~hist.run_failed /\ kills = 0
    /\ hist' = [InitialHist EXCEPT !.ref_set = TRUE,
                                   !.ref_urls = UrlsOf(outFile.content)]
    /\ outFile' = NoFile
    /\ partialFile' = NoFile
    /\ stateFile' = NoFile
    /\ Gone
    /\ UNCHANGED << call, catalog, attempts, fetch_result, counters >>

Next ==
    \/ Start
    \/ SeedSkip
    \/ SeedFetchFail
    \/ SeedFetchOk
    \/ ProcessMainPageItem
    \/ BeginSection
    \/ EnterCrawlSection
    \/ LoopTop
    \/ FetchFail
    \/ FetchOk
    \/ ProcessItem
    \/ Paginate
    \/ SectionEpilogue
    \/ AfterPrePackaged
    \/ MarkCompleted
    \/ WriteOutput
    \/ Interrupt
    \/ UnexpectedException
    \/ Kill
    \/ DeleteFiles

Spec == Init /\ [][Next]_vars

----------------------------------------------------------------------------
\* src/old_files/crawler.py, the earlier version of the crawler.  It works
\* on the same three files and the same globals; it has no processed_pages,
\* no page numbers in crawl_state, no visit counts, and its get_page_content
\* retries.

MAX_PAGE_RETRIES == 3

\* What one request of get_page_content can meet: a response with a body,
\* a response with an empty body, or an exception of requests.
Failures == {"empty", "Timeout", "ConnectionError", "HTTPError"}
Responses == {"ok"} \cup Failures

crawler_caught_timeout_only(r) == r = "Timeout"

\* The except clauses of get_page_content: requests.exceptions.Timeout, and
\* requests.exceptions.RequestException, the base class of all three.
crawler_caught(r) == r \in {"Timeout", "ConnectionError", "HTTPError"}

\* One turn of the while loop of get_page_content with `attempts` failed
\* attempts behind it and a request that meets r.
crawler_get_page_content(n, r) ==
    IF r = "ok"
    THEN [attempts |-> n, result |-> "document"]
    ELSE IF r = "empty" \/ crawler_caught(r)
    THEN [attempts |-> n + 1,
          result |-> IF n + 1 < MAX_PAGE_RETRIES THEN "pending" ELSE "None"]
    ELSE [attempts |-> n, result |-> "raised"]

\* extract_assessment_links of crawler.py: the loop over the links, with the
\* global processed_urls and the local processed_in_batch.  An anchor without
\* a row still gives a stub.
RECURSIVE CrawlerScanAnchors(_, _, _, _)
CrawlerScanAnchors(anchors, purls, processed_in_batch, acc) ==
    IF anchors = <<>>
    THEN [raised |-> FALSE, assessments |-> acc, processed_urls |-> purls]
    ELSE LET a == Head(anchors) IN
         IF a.url \in purls \/ a.url \in processed_in_batch
         THEN CrawlerScanAnchors(Tail(anchors), purls, processed_in_batch, acc)
         ELSE CrawlerScanAnchors(Tail(anchors), purls \cup {a.url},
                                 processed_in_batch \cup {a.url},
                                 Append(acc, crawler_assessment_stub(a)))

\* extract_assessment_links of crawler.py.  When the section heading is not
\* found the function assigns `container` and then reads `section`, which is
\* unbound: UnboundLocalError.
crawler_extract_assessment_links(soup, sec, purls) ==
    IF soup.container[sec] # "header"
    THEN [raised |-> TRUE, assessments |-> <<>>, processed_urls |-> purls]
    ELSE CrawlerScanAnchors(soup.anchors[sec], purls, {}, <<>>)

\* The duration patterns of crawler.py, tried in their order on one text:
\* the range, then the single value (no text of the model holds
\* "approximately").
crawler_minutes(text) ==
    IF InSeq("range", text) THEN "15-20 minutes"
    ELSE IF InSeq("single", text) THEN "30 minutes"
    ELSE NoValue

\* The search in the text of the labeled section.  The fourth pattern,
\* assessment length:?\s*([\w\s]+), matches the label followed by any
\* text; its value is no digit string and holds no "minute", so no duration
\* is set, but duration_found is.
crawler_section_search(soup) ==
    IF ~soup.has_section
    THEN [duration_found |-> FALSE, duration |-> NoValue]
    ELSE IF crawler_minutes(soup.section) # NoValue
    THEN [duration_found |-> TRUE, duration |-> crawler_minutes(soup.section)]
    ELSE IF soup.section # <<>>
    THEN [duration_found |-> TRUE, duration |-> NoValue]
    ELSE [duration_found |-> FALSE, duration |-> NoValue]

\* The search in the whole page text, where the fourth pattern also takes a
\* short text that follows the label for the duration.
crawler_page_search(soup) ==
    IF crawler_minutes(page_text(soup)) # NoValue
    THEN crawler_minutes(page_text(soup))
    ELSE IF soup.has_section
            /\ (soup.section # <<>> \/ (soup.section_first /\ soup.rest # <<>>))
    THEN "Untimed"
    ELSE NoValue

crawler_recheck_remote(flag, evidence) ==
    IF flag # "Yes" /\ evidence = "keyword" THEN "Yes"
    ELSE IF flag = "No" /\ evidence = "label_yes" THEN "Yes"
    ELSE flag

\* every mention of Adaptive or IRT holds one of the adaptive_keywords
crawler_recheck_adaptive(flag, evidence) ==
    IF flag # "Yes" /\ evidence # "none" THEN "Yes" ELSE flag

\* keyword_mapping is gone through in its own order (ability, cognitive,
\* ..., knowledge), not in the order of the text
keyword_types(text) ==
    (IF InSeq("ability", text) THEN <<"Ability">> ELSE <<>>)
    \o (IF InSeq("cognitive", text) THEN <<"Cognitive">> ELSE <<>>)
    \o (IF InSeq("knowledge", text) THEN <<"Knowledge">> ELSE <<>>)

\* a second pass on a record whose test_types was deleted: KeyError at the
\* read of assessment['test_types']
crawler_details_raises(assessment, soup) ==
    soup.ok /\ "test_types" \notin DOMAIN assessment

\* extract_assessment_details of crawler.py: details_extracted tells whether
\* the detail page was fetched; an empty test_types is deleted.  When the
\* call raises, the value is the record as the call left it.
crawler_extract_assessment_details(assessment, soup) ==
    LET has_types == "test_types" \in DOMAIN assessment IN
    IF ~soup.ok
    THEN IF has_types
         THEN [name |-> assessment.name, url |-> assessment.url,
               remote_testing_support |-> assessment.remote_testing_support,
               adaptive_irt_support |-> assessment.adaptive_irt_support,
               duration |-> assessment.duration,
               test_types |-> assessment.test_types,
               description |-> assessment.description,
               details_extracted |-> FALSE]
         ELSE [name |-> assessment.name, url |-> assessment.url,
               remote_testing_support |-> assessment.remote_testing_support,
               adaptive_irt_support |-> assessment.adaptive_irt_support,
               duration |-> assessment.duration,
               description |-> assessment.description,
               details_extracted |-> FALSE]
    ELSE LET in_section == crawler_section_search(soup)
             in_page == crawler_page_search(soup)
             duration ==
                 IF in_section.duration_found
                 THEN IF in_section.duration # NoValue THEN in_section.duration
                      ELSE assessment.duration
                 ELSE IF in_page # NoValue THEN in_page
                 ELSE assessment.duration
             description == IF soup.description # NoValue THEN soup.description
                            ELSE assessment.description
             remote == crawler_recheck_remote(assessment.remote_testing_support,
                                              soup.remote)
             adaptive == crawler_recheck_adaptive(assessment.adaptive_irt_support,
                                                  soup.adaptive)
             test_types == IF ~has_types THEN <<>>
                           ELSE IF assessment.test_types = <<>>
                           THEN keyword_types(soup.measures)
                           ELSE assessment.test_types
         IN  IF test_types = <<>>
             THEN [name |-> assessment.name, url |-> assessment.url,
                   remote_testing_support |-> remote,
                   adaptive_irt_support |-> adaptive,
                   duration |-> duration, description |-> description,
                   details_extracted |-> TRUE]
             ELSE [name |-> assessment.name, url |-> assessment.url,
                   remote_testing_support |-> remote,
                   adaptive_irt_support |-> adaptive,
                   duration |-> duration, test_types |-> test_types,
                   description |-> description, details_extracted |-> TRUE]

\* handle_pagination of crawler.py: the Next link, or None; no arithmetic
\* continuation.  The href is compared with the current URL before the
\* type parameter is set on it.
crawler_next_link(soup) ==
    IF soup.by_rel.found THEN soup.by_rel
    ELSE IF soup.by_text.found THEN soup.by_text
    ELSE soup.by_class

crawler_handle_pagination(soup, url, solution_type) ==
    LET link == crawler_next_link(soup) IN
    IF ~(link.found /\ link.has_href)
    THEN None
    ELSE IF link.disabled
    THEN None
    ELSE IF link.href = url
    THEN None
    ELSE Url(solution_type, link.href.start)

\* save_crawl_state of crawler.py
crawler_save_crawl_state(cs) == [cs EXCEPT !.last_crawl_time = TRUE]

\* crawl_state[state_key] = url
crawler_SetLastPage(cs, sec, url) ==
    IF sec = "pre-packaged"
    THEN [cs EXCEPT !.pre_packaged_last_page = url]
    ELSE [cs EXCEPT !.individual_last_page = url]

\* State files crawler.py can find at its start although it never wrote
\* them: script_manus.py uses the same METADATA_FILE, and leaves a section's
\* last page in it when it is stopped inside the section.
LeftByScriptManus ==
    { [InitialCrawlState EXCEPT !.last_crawl_time = TRUE,
                                !.pre_packaged_last_page = Url(PRE_PACKAGED_TYPE, s)]
        : s \in {NoStart, PageSize, 2 * PageSize, 4 * PageSize} }
    \cup
    { [InitialCrawlState EXCEPT !.last_crawl_time = TRUE,
                                !.individual_last_page = Url(INDIVIDUAL_TYPE, NoStart),
                                !.processed_pages = {Url(PRE_PACKAGED_TYPE, NoStart)}] }

CrawlerInit ==
    /\ catalog \in Catalogs
    /\ outFile \in {NoFile, File(Preloaded)}
    /\ partialFile = NoFile
    /\ stateFile \in {NoFile} \cup {File(cs) : cs \in LeftByScriptManus}
    /\ all_assessments = <<>>
    /\ processed_urls = {}
    /\ processed_pages = {}
    /\ crawl_state = InitialCrawlState
    /\ pc = "off"
    /\ section_type = "pre-packaged"
    /\ current_url = None
    /\ page_num = 1
    /\ empty_page_count = 0
    /\ visited_urls = NoCounts
    /\ section_assessments = <<>>
    /\ page_assessments = <<>>
    /\ all_found_urls = <<>>
    /\ item_idx = 1
    /\ exit_reason = "none"
    /\ attempts = 0
    /\ fetch_result = "idle"
    /\ runs = 0
    /\ kills = 0
    /\ fails = 0
    /\ hist = InitialHist
    /\ call = NoCall

\* What crawler.py does not have, or what it only prints.
unused == << processed_pages, page_num, empty_page_count, visited_urls,
             section_assessments, all_found_urls >>

\* crawl_shl_assessments of crawler.py, lines 657-670: a new process loads
\* the dataset file and the state file, resets completed when the state has
\* no last_crawl_time, and registers the signal handlers.
CrawlerStart ==
    /\ pc \in {"off", "done"}
    /\ runs < MaxRuns
    /\ runs' = runs + 1
    /\ LET loaded == load_existing_assessments(outFile)
           cs == load_crawl_state(stateFile)
       IN /\ all_assessments' = loaded
          /\ processed_urls' = UrlsOf(loaded)
          /\ crawl_state' = IF ~cs.last_crawl_time
                            THEN [cs EXCEPT !.completed = FALSE] ELSE cs
          /\ hist' = [hist EXCEPT
                 !.interrupted = FALSE,
                 !.signalled = FALSE,
                 !.excepted = FALSE,
                 !.ever = @ \cup UrlsOf(loaded),
                 !.resume_url = [s \in Sections |-> LastPage(cs, s)],
                 !.fetched = NoCounts,
                 !.responses = <<>>,
                 !.returned = {},
                 !.run_fresh = ~outFile.exists /\ ~stateFile.exists,
                 !.run_failed = FALSE]
    /\ pc' = "seed"
    /\ section_type' = "pre-packaged"
    /\ current_url' = None
    /\ page_assessments' = <<>>
    /\ item_idx' = 1
    /\ exit_reason' = "none"
    /\ attempts' = 0
    /\ fetch_result' = "idle"
    /\ UNCHANGED << call, catalog, files, unused, kills, fails >>

\* lines 674-678: the state says the crawl was completed; the function
\* returns the loaded dataset and writes nothing.
CrawlerAlreadyCompleted ==
    /\ pc = "seed"
    /\ crawl_state.completed
    /\ pc' = "done"
    /\ UNCHANGED << call, catalog, files, globals, section_type, current_url, page_num,
                    empty_page_count, visited_urls, section_assessments,
                    page_assessments, all_found_urls, item_idx, exit_reason,
                    attempts, fetch_result, counters, hist >>

\* line 682: the main catalog page is crawled only when neither section has
\* a last page and the state has no last_crawl_time.
crawler_seed_wanted(cs) ==
    /\ cs.pre_packaged_last_page = None
    /\ cs.individual_last_page = None
    /\ ~cs.last_crawl_time

\* lines 714-715
CrawlerSeedSkip ==
    /\ pc = "seed"
    /\ ~crawl_state.completed
    /\ ~crawler_seed_wanted(crawl_state)
    /\ pc' = "section"
    /\ UNCHANGED << call, catalog, files, globals, section_type, current_url, page_num,
                    empty_page_count, visited_urls, section_assessments,
                    page_assessments, all_found_urls, item_idx, exit_reason,
                    attempts, fetch_result, counters, hist >>

\* line 684: get_page_content(CATALOG_URL) is called (line 158: attempts = 0).
CrawlerSeedFetch ==
    /\ pc = "seed"
    /\ ~crawl_state.completed
    /\ crawler_seed_wanted(crawl_state)
    /\ pc' = "seed_fetch"
    /\ attempts' = 0
    /\ fetch_result' = "pending"
    /\ hist' = [hist EXCEPT !.responses = <<>>]
    /\ UNCHANGED << call, catalog, files, globals, section_type, current_url, page_num,
                    empty_page_count, visited_urls, section_assessments,
                    page_assessments, all_found_urls, item_idx, exit_reason,
                    counters >>

\* get_page_content, lines 159-189: one turn of the while loop.  The request
\* of a listing page counts as a fetch of that page.
CrawlerAttempt ==
    /\ pc \in {"seed_fetch", "fetch"}
    /\ fetch_result = "pending"
    /\ \E r \in Responses :
        /\ r # "ok" => /\ fails < MaxFails
                       /\ pc = "seed_fetch" \/ Flaky(catalog, current_url)
        /\ LET step == crawler_get_page_content(attempts, r)
           IN /\ attempts' = step.attempts
              /\ fetch_result' = step.result
        /\ fails' = IF r = "ok" THEN fails ELSE fails + 1
        /\ hist' = [hist EXCEPT
               !.responses = Append(@, r),
               !.run_failed = @ \/ r # "ok",
               !.fetched = IF pc = "fetch"
                           THEN [@ EXCEPT ![current_url] = @ + 1] ELSE @]
    /\ UNCHANGED << call, catalog, files, globals, pc, section_type, current_url, page_num,
                    empty_page_count, visited_urls, section_assessments,
                    page_assessments, all_found_urls, item_idx, exit_reason,
                    runs, kills >>

\* crawl_shl_assessments of crawler.py, lines 766-773: an exception inside
\* the try block is caught, save_partial_results is called and the function
\* returns.
CrawlerExcept ==
    /\ LET saved == crawler_save_crawl_state(crawl_state)
       IN /\ partialFile' = File(all_assessments)
          /\ crawl_state' = saved
          /\ stateFile' = File(saved)
    /\ pc' = "done"
    /\ attempts' = 0
    /\ fetch_result' = "idle"
    /\ hist' = [hist EXCEPT !.responses = <<>>, !.run_failed = TRUE,
                            !.excepted = TRUE]
    /\ UNCHANGED << call, catalog, outFile, all_assessments, processed_urls, processed_pages,
                    section_type, current_url, page_num, empty_page_count,
                    visited_urls, section_assessments, page_assessments,
                    all_found_urls, item_idx, exit_reason, counters >>

\* lines 686-713: the main page was fetched, or not.  Without a stub to
\* process, save_partial_results (line 711) follows at once.
CrawlerSeedPage ==
    /\ pc = "seed_fetch"
    /\ fetch_result # "pending"
    /\ IF fetch_result = "raised"
       THEN CrawlerExcept
       ELSE IF fetch_result = "None"
       THEN /\ pc' = "section"
            /\ attempts' = 0
            /\ fetch_result' = "idle"
            /\ hist' = [hist EXCEPT !.responses = <<>>]
            /\ UNCHANGED << call, catalog, files, globals, section_type, current_url,
                            page_num, empty_page_count, visited_urls,
                            section_assessments, page_assessments, all_found_urls,
                            item_idx, exit_reason, counters >>
       ELSE LET soup == MainPageOf(catalog)
                pre == crawler_extract_assessment_links(soup, "pre-packaged", processed_urls)
                ind == crawler_extract_assessment_links(soup, "individual", pre.processed_urls)
                main_page_assessments == pre.assessments \o ind.assessments
                saved == crawler_save_crawl_state(crawl_state)
            IN IF pre.raised \/ ind.raised
               THEN CrawlerExcept
               ELSE /\ processed_urls' = ind.processed_urls
                    /\ page_assessments' = main_page_assessments
                    /\ item_idx' = 1
                    /\ attempts' = 0
                    /\ fetch_result' = "idle"
                    /\ hist' = [hist EXCEPT !.responses = <<>>]
                    /\ IF main_page_assessments # <<>>
                       THEN /\ pc' = "seed_items"
                            /\ UNCHANGED << partialFile, stateFile, crawl_state >>
                       ELSE /\ pc' = "section"
                            /\ partialFile' = File(all_assessments)
                            /\ crawl_state' = saved
                            /\ stateFile' = File(saved)
                    /\ UNCHANGED << call, catalog, outFile, all_assessments, processed_pages,
                                    section_type, current_url, page_num,
                                    empty_page_count, visited_urls,
                                    section_assessments, all_found_urls,
                                    exit_reason, counters >>

crawler_batch_due(n) == (n % BatchSize) = 0

\* One turn of the loops of lines 695-710 and 580-605: a stub whose url is
\* in processed_urls and in the dataset is passed over; otherwise its details
\* are fetched and, if the dataset has no record of that url, the record is
\* appended, with save_partial_results when the size is a multiple of 10; a
\* record of that url is replaced when details were extracted.  After the
\* last stub of the main page save_partial_results follows (line 711).
CrawlerItem ==
    /\ pc \in {"seed_items", "items"}
    /\ item_idx <= Len(page_assessments)
    /\ LET assessment == page_assessments[item_idx]
           known == assessment.url \in UrlsOf(all_assessments)
           skip == assessment.url \in processed_urls /\ known
           updated_assessment ==
               crawler_extract_assessment_details(
                   assessment, DetailPageAt(catalog, assessment.url))
           dataset ==
               IF skip THEN all_assessments
               ELSE IF ~known THEN Append(all_assessments, updated_assessment)
               ELSE IF updated_assessment.details_extracted
               THEN [k \in 1..Len(all_assessments) |->
                        IF all_assessments[k].url = assessment.url
                           /\ \A j \in 1..(k - 1) : all_assessments[j].url # assessment.url
                        THEN updated_assessment ELSE all_assessments[k]]
               ELSE all_assessments
           appended == ~skip /\ ~known
           last == item_idx = Len(page_assessments)
           save == \/ appended /\ crawler_batch_due(Len(dataset))
                   \/ last /\ pc = "seed_items"
           saved == crawler_save_crawl_state(crawl_state)
       IN /\ all_assessments' = dataset
          /\ processed_urls' = IF appended
                               THEN processed_urls \cup {assessment.url}
                               ELSE processed_urls
          /\ partialFile' = IF save THEN File(dataset) ELSE partialFile
          /\ crawl_state' = IF save THEN saved ELSE crawl_state
          /\ stateFile' = IF save THEN File(saved) ELSE stateFile
          /\ item_idx' = item_idx + 1
          /\ pc' = IF ~last THEN pc
                   ELSE IF pc = "seed_items" THEN "section" ELSE "paginate"
          /\ hist' = [hist EXCEPT !.ever = @ \cup UrlsOf(dataset)]
    /\ UNCHANGED << call, catalog, outFile, processed_pages, section_type, current_url,
                    page_num, empty_page_count, visited_urls, section_assessments,
                    page_assessments, all_found_urls, exit_reason, attempts,
                    fetch_result, counters >>

\* lines 722 and 732: crawl_state.get(key, 0) is not None.  The key is in
\* crawl_state from line 51 on, so the default is never used and the test
\* is false when the section has no last page.
crawler_section_wanted(cs, sec) == ~cs.completed /\ LastPage(cs, sec) # None

\* lines 726-727 and 736-737: crawl_section is not called.
CrawlerSectionSkip ==
    /\ pc = "section"
    /\ ~crawler_section_wanted(crawl_state, section_type)
    /\ pc' = "returned"
    /\ UNCHANGED << call, catalog, files, globals, section_type, current_url, page_num,
                    empty_page_count, visited_urls, section_assessments,
                    page_assessments, all_found_urls, item_idx, exit_reason,
                    attempts, fetch_result, counters, hist >>

\* lines 723-725, 733-735 and crawl_section, lines 526-539: the crawl of
\* the section starts at the last page of the state, or at start_url.
CrawlerEnterSection ==
    /\ pc = "section"
    /\ crawler_section_wanted(crawl_state, section_type)
    /\ current_url' = IF LastPage(crawl_state, section_type) # None
                      THEN LastPage(crawl_state, section_type)
                      ELSE StartUrl(section_type)
    /\ exit_reason' = "none"
    /\ page_assessments' = <<>>
    /\ item_idx' = 1
    /\ pc' = "loop"
    /\ hist' = [hist EXCEPT !.entry_url[section_type] =
                    IF LastPage(crawl_state, section_type) # None
                    THEN LastPage(crawl_state, section_type)
                    ELSE StartUrl(section_type)]
    /\ UNCHANGED << call, catalog, files, globals, section_type, page_num,
                    empty_page_count, visited_urls, section_assessments,
                    all_found_urls, attempts, fetch_result, counters >>

\* crawl_section of crawler.py, lines 541-549: the state is given the URL
\* and saved, then get_page_content is called.
CrawlerLoopTop ==
    /\ pc = "loop"
    /\ current_url # None
    /\ LET saved == crawler_save_crawl_state(
                        crawler_SetLastPage(crawl_state, section_type, current_url))
       IN /\ crawl_state' = saved
          /\ stateFile' = File(saved)
    /\ pc' = "fetch"
    /\ attempts' = 0
    /\ fetch_result' = "pending"
    /\ hist' = [hist EXCEPT !.responses = <<>>]
    /\ UNCHANGED << call, catalog, outFile, partialFile, all_assessments, processed_urls,
                    processed_pages, section_type, current_url, page_num,
                    empty_page_count, visited_urls, section_assessments,
                    page_assessments, all_found_urls, item_idx, exit_reason,
                    counters >>

\* lines 551-577: no page after the retries ends the loop with
\* max_retries_reached_on_page; otherwise the stubs of the page are
\* extracted.
CrawlerPage ==
    /\ pc = "fetch"
    /\ fetch_result # "pending"
    /\ IF fetch_result = "raised"
       THEN CrawlerExcept
       ELSE IF fetch_result = "None"
       THEN /\ pc' = "epilogue"
            /\ exit_reason' = "max_retries"
            /\ attempts' = 0
            /\ fetch_result' = "idle"
            /\ hist' = [hist EXCEPT !.responses = <<>>, !.failed_url = current_url]
            /\ UNCHANGED << call, catalog, files, globals, section_type, current_url,
                            page_num, empty_page_count, visited_urls,
                            section_assessments, page_assessments, all_found_urls,
                            item_idx, counters >>
       ELSE LET r == crawler_extract_assessment_links(
                         PageAt(catalog, current_url), section_type, processed_urls)
            IN IF r.raised
               THEN CrawlerExcept
               ELSE /\ processed_urls' = r.processed_urls
                    /\ page_assessments' = r.assessments
                    /\ item_idx' = 1
                    /\ pc' = IF r.assessments = <<>> THEN "paginate" ELSE "items"
                    /\ attempts' = 0
                    /\ fetch_result' = "idle"
                    /\ hist' = [hist EXCEPT !.responses = <<>>]
                    /\ UNCHANGED << call, catalog, files, all_assessments, processed_pages,
                                    crawl_state, section_type, current_url, page_num,
                                    empty_page_count, visited_urls,
                                    section_assessments, all_found_urls,
                                    exit_reason, counters >>

\* lines 608-626: the next URL; None ends the loop with
\* section_completed_normally, another URL is followed by
\* save_partial_results.
CrawlerPaginate ==
    /\ pc = "paginate"
    /\ LET next_url == crawler_handle_pagination(PageAt(catalog, current_url),
                                                 current_url, TypeOf(section_type))
           saved == crawler_save_crawl_state(crawl_state)
       IN /\ InRange(next_url)
          /\ current_url' = next_url
          /\ IF next_url = None
             THEN /\ pc' = "epilogue"
                  /\ exit_reason' = "completed"
                  /\ UNCHANGED << partialFile, stateFile, crawl_state >>
             ELSE /\ pc' = "loop"
                  /\ exit_reason' = exit_reason
                  /\ partialFile' = File(all_assessments)
                  /\ crawl_state' = saved
                  /\ stateFile' = File(saved)
    /\ UNCHANGED << call, catalog, outFile, all_assessments, processed_urls, processed_pages,
                    section_type, page_num, empty_page_count, visited_urls,
                    section_assessments, page_assessments, all_found_urls, item_idx,
                    attempts, fetch_result, counters, hist >>

\* lines 629-645: the last page of the section becomes None only when the
\* section was completed normally; the state is saved.
CrawlerEpilogue ==
    /\ pc = "epilogue"
    /\ LET cs == IF exit_reason = "completed"
                 THEN crawler_SetLastPage(crawl_state, section_type, None)
                 ELSE crawl_state
           saved == crawler_save_crawl_state(cs)
       IN /\ crawl_state' = saved
          /\ stateFile' = File(saved)
    /\ pc' = "returned"
    /\ hist' = [hist EXCEPT !.returned = @ \cup {section_type}]
    /\ UNCHANGED << call, catalog, outFile, partialFile, all_assessments, processed_urls,
                    processed_pages, locals, attempts, fetch_result, counters >>

\* line 729: the individual section follows the pre-packaged one.
CrawlerAfterSection ==
    /\ pc = "returned"
    /\ section_type = "pre-packaged"
    /\ section_type' = "individual"
    /\ pc' = "section"
    /\ UNCHANGED << call, catalog, files, globals, current_url, page_num,
                    empty_page_count, visited_urls, section_assessments,
                    page_assessments, all_found_urls, item_idx, exit_reason,
                    attempts, fetch_result, counters, hist >>

\* lines 741-748: completed is true exactly when both sections have no last
\* page; the state is saved.
CrawlerFinal ==
    /\ pc = "returned"
    /\ section_type = "individual"
    /\ LET saved == crawler_save_crawl_state(
                        [crawl_state EXCEPT !.completed =
                            /\ crawl_state.pre_packaged_last_page = None
                            /\ crawl_state.individual_last_page = None])
       IN /\ crawl_state' = saved
          /\ stateFile' = File(saved)
    /\ pc' = "write"
    /\ UNCHANGED << call, catalog, outFile, partialFile, all_assessments, processed_urls,
                    processed_pages, locals, attempts, fetch_result, counters, hist >>

\* lines 750-764
CrawlerWriteOutput ==
    /\ pc = "write"
    /\ outFile' = File(all_assessments)
    /\ pc' = "done"
    /\ UNCHANGED << call, catalog, partialFile, stateFile, globals, locals, attempts,
                    fetch_result, counters, hist >>

\* signal_handler of crawler.py, lines 142-146: save_partial_results, then
\* sys.exit(0).
CrawlerInterrupt ==
    /\ Running
    /\ kills < MaxKills
    /\ kills' = kills + 1
    /\ partialFile' = File(all_assessments)
    /\ stateFile' = File(crawler_save_crawl_state(crawl_state))
    /\ hist' = [hist EXCEPT !.interrupted = TRUE, !.responses = <<>>,
                            !.returned = {}, !.signalled = TRUE]
    /\ attempts' = 0
    /\ fetch_result' = "idle"
    /\ Gone
    /\ UNCHANGED << call, catalog, outFile, runs, fails >>

\* The process is killed without notice.
CrawlerKill ==
    /\ Running
    /\ kills < MaxKills
    /\ kills' = kills + 1
    /\ hist' = [hist EXCEPT !.interrupted = TRUE, !.responses = <<>>,
                            !.returned = {}, !.signalled = FALSE,
                            !.ever = {}]
    /\ attempts' = 0
    /\ fetch_result' = "idle"
    /\ Gone
    /\ UNCHANGED << call, catalog, files, runs, fails >>

CrawlerNext ==
    \/ CrawlerStart
    \/ CrawlerAlreadyCompleted
    \/ CrawlerSeedSkip
    \/ CrawlerSeedFetch
    \/ CrawlerAttempt
    \/ CrawlerSeedPage
    \/ CrawlerItem
    \/ CrawlerSectionSkip
    \/ CrawlerEnterSection
    \/ CrawlerLoopTop
    \/ CrawlerPage
    \/ CrawlerPaginate
    \/ CrawlerEpilogue
    \/ CrawlerAfterSection
    \/ CrawlerFinal
    \/ CrawlerWriteOutput
    \/ CrawlerInterrupt
    \/ CrawlerKill

SpecOld == CrawlerInit /\ [][CrawlerNext]_vars

----------------------------------------------------------------------------
\* Properties

NoDuplicateUrls(recs) ==
    \A i, j \in 1..Len(recs) : i # j => recs[i].url # recs[j].url

\* C1: no two records of all_assessments, of the partial file or of the
\* dataset file have the same url, whatever the sequence of seed crawl,
\* section crawls, signals, kills and restarts, from a dataset file without
\* duplicates.
C1_UniqueUrls ==
    /\ NoDuplicateUrls(all_assessments)
    /\ partialFile.exists => NoDuplicateUrls(partialFile.content)
    /\ outFile.exists => NoDuplicateUrls(outFile.content)

\* The dataset was written by a restarted process over catalog A, whose
\* pages repeat an anchor and share an item between the main page and both
\* sections.
C1_Witness ==
    /\ catalog = "A" /\ pc = "done" /\ runs >= 2 /\ kills >= 1
    /\ {1, 2, 4} \subseteq UrlsOf(outFile.content)

\* C2: every record an interrupted process wrote to the partial file is in
\* all_assessments of the next process after its start-up load.
C2_InterruptionLosesNothing ==
    (pc = "seed" /\ hist.interrupted) => hist.flushed \subseteq UrlsOf(all_assessments)

\* C3: with no failed fetch, a dataset file finished after kills and
\* restarts has the urls of the dataset an uninterrupted run from no files
\* wrote for the same catalog.
C3_ConvergesToUninterruptedRun ==
    (pc = "done" /\ hist.ref_set /\ fails = 0)
        => UrlsOf(outFile.content) = hist.ref_urls

\* C4: a process that follows a finished one, neither with a failed fetch,
\* writes a dataset file without duplicate url and with as many records as
\* the one before wrote.
C4_SecondRunIdempotent ==
    (pc = "done" /\ hist.after_completed /\ ~hist.run_failed)
        => /\ Len(outFile.content) = hist.prev_len
           /\ NoDuplicateUrls(outFile.content)

C4_Witness ==
    /\ pc = "done" /\ hist.after_completed /\ ~hist.run_failed
    /\ hist.prev_len >= 3 /\ Len(outFile.content) >= 3

\* C5: while stubs found on the current page still wait to be enriched and
\* appended, the page is neither in processed_pages nor in the processed
\* pages of the saved state file.
C5_ProcessedPageIsHarvested ==
    (pc = "items" /\ item_idx <= Len(page_assessments))
        => /\ current_url \notin processed_pages
           /\ stateFile.exists => current_url \notin stateFile.content.processed_pages

\* C6: a section whose last_page_url in the state file loaded at start-up
\* is a url u enters the loop of crawl_section with current_url = u.
C6_ResumesAtLastPage ==
    \A s \in Sections :
        (hist.resume_url[s] # None /\ hist.entry_url[s] # None)
            => hist.entry_url[s] = hist.resume_url[s]

C6_Witness ==
    \E s \in Sections :
        /\ hist.resume_url[s] # None
        /\ hist.resume_url[s] # StartUrl(s)
        /\ hist.entry_url[s] = hist.resume_url[s]

\* C7: the listing page crawl_section is about to fetch is neither in
\* processed_pages (loaded from the state file and extended by this
\* process) nor in the processed pages of the saved state file.
C7_NoFetchOfProcessedPage ==
    pc = "fetch"
        => /\ current_url \notin processed_pages
           /\ stateFile.exists => current_url \notin stateFile.content.processed_pages

\* A restarted process that loaded processed pages of this section is about
\* to fetch a page after having skipped one.
C7_Witness ==
    /\ pc = "fetch" /\ runs >= 2 /\ HasStart(current_url)
    /\ hist.entry_url[section_type] \in processed_pages
    /\ \E u \in stateFile.content.processed_pages : u.type = current_url.type

\* C8: when crawl_section returns after it stopped on failed fetches, the
\* saved state has the failing url as the section's last_page_url.
C8_AbandonedSectionStaysIncomplete ==
    (pc = "returned" /\ exit_reason = "fetch_failed")
        => /\ stateFile.exists
           /\ LastPage(stateFile.content, section_type) = hist.failed_url

\* C9: in one call of crawl_section no listing url is fetched more than
\* max_revisits + 1 = 3 times.
C9_BoundedRefetch ==
    \A u \in Urls : hist.fetched[u] <= max_revisits + 1

\* The section was ended because a url came up for the third time.
C9_Witness ==
    /\ pc = "epilogue"
    /\ \E u \in Urls : visited_urls[u] > max_revisits /\ hist.fetched[u] = max_revisits

\* C10: after a fetch met the rate-limit branch, the url current when the
\* loop goes on, and fetched next, is the same url; the section is not
\* ended.
C10_RateLimitRetriesSameUrl ==
    hist.rate_limited # None
        => /\ pc \in {"loop", "fetch"}
           /\ current_url = hist.rate_limited

\* C11: once crawl_section has fetched a listing page of the section's type
\* that has no item link and holds a "no results" phrase, the loop is left
\* with the empty-page counter not incremented, and when the function
\* returns, the section's last page is None in crawl_state and in the saved
\* state file.
C11_NoResultsEndsSection ==
    (/\ pc \in {"items", "paginate", "epilogue", "returned"}
     /\ current_url # None
     /\ current_url.type = TypeOf(section_type)
     /\ hist.fetched[current_url] > 0
     /\ PageAt(catalog, current_url).text = "noresults"
     /\ all_found_urls = <<>>)
        => /\ pc \in {"epilogue", "returned"}
           /\ empty_page_count = 0
           /\ pc = "returned"
                => /\ LastPage(crawl_state, section_type) = None
                   /\ stateFile.exists
                   /\ LastPage(stateFile.content, section_type) = None

\* crawl_section has returned after the fetch of a "no results" page that
\* is not the section's first page.
C11_Witness ==
    /\ pc = "returned" /\ exit_reason = "no_results"
    /\ HasStart(current_url)
    /\ hist.fetched[current_url] = 1
    /\ PageAt(catalog, current_url).text = "noresults"
    /\ LastPage(stateFile.content, section_type) = None

BothSectionsDone(cs) ==
    \A s \in Sections : LastPage(cs, s) = None

\* C12: completed is true, in crawl_state and in the saved state file, only
\* when the last page of both sections is None there.
C12_CompletedOnlyWhenBothDone ==
    /\ crawl_state.completed => BothSectionsDone(crawl_state)
    /\ (stateFile.exists /\ stateFile.content.completed)
            => BothSectionsDone(stateFile.content)

\* A run over catalog A has been through both sections and saved
\* completed = true.
C12_Witness ==
    /\ catalog = "A" /\ pc = "write"
    /\ crawl_state.completed
    /\ stateFile.exists /\ stateFile.content.completed
    /\ Len(all_assessments) >= 3

\* C13: on a first run with no state file, crawl_shl_assessments of
\* old_files/crawler.py sets completed only after each of the two sections
\* had at least one fetch attempt of one of its listing pages in this run.
C13_SectionsCrawledBeforeCompleted ==
    (pc \notin {"off", "seed"} /\ hist.run_fresh /\ crawl_state.completed)
        => \A s \in Sections :
              \E u \in Urls : u.type = TypeOf(s) /\ hist.fetched[u] > 0

\* C20: a call of get_page_content of old_files/crawler.py makes at most
\* MAX_PAGE_RETRIES requests; it gives the document exactly at the first
\* request that meets a non-empty successful response, gives None only when
\* MAX_PAGE_RETRIES requests failed, goes on only while fewer have failed,
\* and never raises.
C20_GetPageContentRetries ==
    LET n == Len(hist.responses)
        failed(k) == hist.responses[k] \in Failures
    IN /\ n <= MAX_PAGE_RETRIES
       /\ fetch_result # "raised"
       /\ fetch_result = "document"
            => /\ n >= 1
               /\ hist.responses[n] = "ok"
               /\ \A k \in 1..(n - 1) : failed(k)
       /\ fetch_result = "None"
            => /\ n = MAX_PAGE_RETRIES
               /\ \A k \in 1..n : failed(k)
       /\ fetch_result = "pending"
            => /\ n < MAX_PAGE_RETRIES
               /\ attempts = n
               /\ \A k \in 1..n : failed(k)

\* A call that gave None after a timeout, an HTTP error and an empty body.
C20_Witness ==
    /\ pc = "fetch"
    /\ fetch_result = "None"
    /\ hist.responses = << "Timeout", "HTTPError", "empty" >>

\* A call that gave the document at its third request.
C20_WitnessDocument ==
    /\ fetch_result = "document"
    /\ hist.responses = << "ConnectionError", "empty", "ok" >>

C19_RecordsNeverVanish ==
    /\ pc # "off" => hist.ever \subseteq UrlsOf(all_assessments)
    /\ pc = "done" => hist.ever \subseteq UrlsOf(outFile.content)

----------------------------------------------------------------------------
\* The functions of the crawler applied to documents of their own.
\*
\* handle_pagination, extract_assessment_links and
\* extract_assessment_details are functions of a parsed document and of
\* their arguments.  SpecCalls applies them to every document and argument
\* of bounded sets, whether or not a catalog of the crawl above serves such
\* a document; call holds the function, its arguments and its result.
\* Each behaviour makes one call (and, for the enrichment of a record, the
\* passes that follow it on the same record).

crawl_vars == << catalog, outFile, partialFile, stateFile, all_assessments,
                 processed_urls, processed_pages, crawl_state, pc,
                 section_type, current_url, page_num, empty_page_count,
                 visited_urls, section_assessments, page_assessments,
                 all_found_urls, item_idx, exit_reason, attempts,
                 fetch_result, runs, kills, fails, hist >>

CallInit ==
    /\ Init
    /\ catalog = "A"
    /\ outFile = NoFile

\* current URLs: of either type or without type parameter; without start
\* parameter, with one that is no number, on the second page and beyond the
\* offset at which the last-page phrases are looked for
CallTypes == {INDIVIDUAL_TYPE, PRE_PACKAGED_TYPE}
CallUrls == [type : CallTypes \cup {NoType},
             start : {NoStart, BadStart, PageSize, HighStart + PageSize}]
CallAnchors ==
    {NoAnchor, Hrefless, Disabled(Href(PRE_PACKAGED_TYPE, PageSize))}
    \cup {Href(t, s) : t \in CallTypes \cup {NoType}, s \in {NoStart, PageSize}}

\* documents of handle_pagination of script_manus.py (it does not look for
\* rel="next") and of crawler.py (it looks neither for the active page nor
\* at the page text)
PaginationDocs ==
    [by_rel : {NoAnchor}, by_text : CallAnchors, by_class : CallAnchors,
     after_active : CallAnchors, text : {"plain", "end"}]
CrawlerPaginationDocs ==
    [by_rel : CallAnchors, by_text : CallAnchors, by_class : CallAnchors,
     after_active : {NoAnchor}, text : {"plain"}]

CallHandlePagination ==
    /\ call = NoCall
    /\ \E soup \in PaginationDocs, url \in CallUrls, st \in CallTypes :
          call' = [fn |-> "handle_pagination", soup |-> soup,
                   current_url |-> url, solution_type |-> st,
                   out |-> handle_pagination(soup, url, st)]
    /\ UNCHANGED crawl_vars

CallCrawlerHandlePagination ==
    /\ call = NoCall
    /\ \E soup \in CrawlerPaginationDocs, url \in CallUrls, st \in CallTypes :
          call' = [fn |-> "crawler_handle_pagination", soup |-> soup,
                   current_url |-> url, solution_type |-> st,
                   out |-> crawler_handle_pagination(soup, url, st)]
    /\ UNCHANGED crawl_vars

\* listing pages of extract_assessment_links: the section found by its
\* heading, by the type marker or not at all, with up to MaxAnchors valid
\* anchors of two items, with or without an enclosing row; any of the two
\* items may have been processed before the call
MaxAnchors == 3
CallItems == {1, 2}
AnchorSeqs ==
    UNION {[1..n -> {A(i) : i \in CallItems} \cup {Bare(i) : i \in CallItems}] :
           n \in 0..MaxAnchors}
ListingDocs ==
    {Page(sec, cont, anchors, "plain", NoLink) :
        sec \in Sections, cont \in {"header", "marker", "none"},
        anchors \in AnchorSeqs}

CallExtractLinks ==
    /\ call = NoCall
    /\ \E soup \in ListingDocs, sec \in Sections, purls \in SUBSET CallItems :
          call' = [fn |-> "extract_assessment_links", soup |-> soup,
                   section |-> sec, processed_urls |-> purls,
                   out |-> extract_assessment_links(soup, sec, purls)]
    /\ UNCHANGED crawl_vars

\* Detail pages of extract_assessment_details: every text of up to MaxTokens
\* phrases inside and outside the labeled section, every evidence on the two
\* flags, every test-type text of up to MaxLetters characters and keywords,
\* a page without description and a failed fetch.
MaxTokens == 2
MaxLetters == 2
MaxPasses == 3
Flags == {"remote_testing_support", "adaptive_irt_support"}
TokenSeqs == UNION {[1..n -> {"range", "single", "word"}] : n \in 0..MaxTokens}
LetterSeqs == UNION {[1..n -> {"A", "K", "x"}] : n \in 0..MaxLetters}
MeasureSeqs == UNION {[1..n -> {"ability", "cognitive"}] : n \in 0..MaxLetters}
Evidence == {"none", "label", "label_yes", "keyword"}
FailedDoc == [PlainDetail EXCEPT !.ok = FALSE]
DurationDocs ==
    {[PlainDetail EXCEPT !.rest = r] : r \in TokenSeqs}
    \cup {[PlainDetail EXCEPT !.has_section = TRUE, !.section = t, !.rest = r,
                               !.section_first = f] :
            t \in TokenSeqs, r \in TokenSeqs, f \in BOOLEAN}
FlagDocs ==
    {[PlainDetail EXCEPT !.remote = r, !.adaptive = a] : r \in Evidence, a \in Evidence}
TypeDocs ==
    {[PlainDetail EXCEPT !.type_text = t] : t \in LetterSeqs}
    \cup {[PlainDetail EXCEPT !.measures = m] : m \in MeasureSeqs}
    \cup {[PlainDetail EXCEPT !.description = NoValue]}

\* the rows the stubs come from
FlagAnchors == {Anchor(1, TRUE, r, a, <<>>) : r \in BOOLEAN, a \in BOOLEAN} \cup {Bare(1)}
TypeAnchors == {Anchor(1, TRUE, FALSE, FALSE, t) : t \in LetterSeqs}

\* the calls made: a stub and the detail page it is enriched with
DetailCalls ==
    {<<a, d>> : a \in FlagAnchors, d \in FlagDocs}
    \cup {<<a, d>> : a \in TypeAnchors, d \in TypeDocs}
    \cup {<<a, FailedDoc>> : a \in FlagAnchors \cup TypeAnchors}
    \cup {<<A(1), d>> : d \in DurationDocs}
\* the pages of the passes that follow
LaterDocs == FlagDocs \cup {FailedDoc}

YesFlags(assessment) == {f \in Flags : assessment[f] = "Yes"}

\* link extraction followed by enrichment, script_manus.py (an anchor
\* without row gives no stub)
CallExtractDetails ==
    /\ call = NoCall
    /\ \E c \in DetailCalls :
          /\ c[1].row
          /\ LET assessment == assessment_stub(c[1])
                 out == extract_assessment_details(assessment, c[2])
             IN  call' = [fn |-> "extract_assessment_details", anchor |-> c[1],
                          assessment |-> assessment, soup |-> c[2], out |-> out,
                          raised |-> FALSE, pass |-> 1,
                          yes_seen |-> YesFlags(assessment) \cup YesFlags(out)]
    /\ UNCHANGED crawl_vars

\* link extraction followed by enrichment, crawler.py
CallCrawlerExtractDetails ==
    /\ call = NoCall
    /\ \E c \in DetailCalls :
          LET assessment == crawler_assessment_stub(c[1])
              out == crawler_extract_assessment_details(assessment, c[2])
          IN  call' = [fn |-> "crawler_extract_assessment_details", anchor |-> c[1],
                       assessment |-> assessment, soup |-> c[2], out |-> out,
                       raised |-> crawler_details_raises(assessment, c[2]),
                       pass |-> 1,
                       yes_seen |-> YesFlags(assessment) \cup YesFlags(out)]
    /\ UNCHANGED crawl_vars

\* a further enrichment pass on the record the last pass gave
CallEnrichAgain ==
    /\ call.fn \in {"extract_assessment_details", "crawler_extract_assessment_details"}
    /\ ~call.raised
    /\ call.pass < MaxPasses
    /\ \E soup \in LaterDocs :
          LET out == IF call.fn = "extract_assessment_details"
                     THEN extract_assessment_details(call.out, soup)
                     ELSE crawler_extract_assessment_details(call.out, soup)
          IN  call' = [call EXCEPT
                         !.assessment = call.out, !.soup = soup, !.out = out,
                         !.raised = call.fn = "crawler_extract_assessment_details"
                                    /\ crawler_details_raises(call.out, soup),
                         !.pass = @ + 1,
                         !.yes_seen = @ \cup YesFlags(out)]
    /\ UNCHANGED crawl_vars

\* sorted(assessment_urls) of generate_page_fingerprint, by insertion
RECURSIVE insort(_, _)
insort(x, seq) ==
    IF seq = <<>> THEN <<x>>
    ELSE IF x <= Head(seq) THEN <<x>> \o seq
    ELSE <<Head(seq)>> \o insort(x, Tail(seq))
RECURSIVE sorted(_)
sorted(seq) == IF seq = <<>> THEN <<>> ELSE insort(Head(seq), sorted(Tail(seq)))

\* generate_page_fingerprint: the digest of "url|u1,u2,..." with the item
\* URLs sorted; the digest is kept as the text it is taken of
generate_page_fingerprint(url, assessment_urls) ==
    [url |-> url, assessment_str |-> sorted(assessment_urls)]

\* the listing pages a page URL is harvested with, and the pages the same
\* URL serves on a later pass
PageUrls == {Url(INDIVIDUAL_TYPE, NoStart), Url(INDIVIDUAL_TYPE, PageSize)}
HarvestDocs ==
    {Page("individual", "header", anchors, "plain", NoLink) : anchors \in AnchorSeqs}
RevisitDocs ==
    {Page("individual", "header", anchors, "plain", NoLink) :
        anchors \in UNION {[1..n -> {A(i) : i \in CallItems}] : n \in 0..MaxAnchors}}

\* crawl_section, lines 806-810: the links of the fetched page are
\* extracted, the fingerprint is computed and the page is added to
\* processed_pages
CallHarvestPage ==
    /\ call = NoCall
    /\ \E url \in PageUrls, soup \in HarvestDocs :
          LET links == extract_assessment_links(soup, "individual", {})
          IN  call' = [fn |-> "crawl_section_page", url |-> url,
                       found |-> links.all_found_urls,
                       page_fingerprint |->
                           generate_page_fingerprint(url, links.all_found_urls),
                       processed_pages |-> {} \cup {url},
                       revisited |-> FALSE, now |-> <<>>, skipped |-> FALSE]
    /\ UNCHANGED crawl_vars

\* crawl_section, line 695, on a later pass over the same URL: the test that
\* decides whether the page is fetched again
CallRevisitPage ==
    /\ call.fn = "crawl_section_page"
    /\ ~call.revisited
    /\ \E soup \in RevisitDocs :
          LET links == extract_assessment_links(soup, "individual", {})
          IN  call' = [call EXCEPT !.revisited = TRUE,
                                   !.now = links.all_found_urls,
                                   !.skipped = already_processed(call.url,
                                                                 call.processed_pages)]
    /\ UNCHANGED crawl_vars

CallNext ==
    \/ CallHandlePagination
    \/ CallCrawlerHandlePagination
    \/ CallExtractLinks
    \/ CallExtractDetails
    \/ CallCrawlerExtractDetails
    \/ CallEnrichAgain
    \/ CallHarvestPage
    \/ CallRevisitPage

SpecCalls == CallInit /\ [][CallNext]_vars

\* C21: every URL handle_pagination of script_manus.py returns has its type
\* parameter equal to the solution_type of the call, for any document and
\* any current URL.
C21_ReturnedUrlHasSolutionType ==
    (call.fn = "handle_pagination" /\ call.out # None)
        => call.out.type = call.solution_type

\* C22: handle_pagination (script_manus.py and old_files/crawler.py) never
\* returns the current URL.
C22_NeverReturnsCurrentUrl ==
    call.fn \in {"handle_pagination", "crawler_handle_pagination"}
        => call.out # call.current_url

\* C22, script_manus.py alone
C22_ScriptManusNeverReturnsCurrentUrl ==
    call.fn = "handle_pagination" => call.out # call.current_url

\* C23: handle_pagination of script_manus.py gives the URL of the first of
\* the anchors (text Next, next/arrow/forward class, sibling of the active
\* page) that yields a URL, and the continuation of the start offset
\* whenever none of the three yields a URL.
Yields(a) == a.found /\ a.has_href
C23_FirstYieldingStrategyWins ==
    call.fn = "handle_pagination" =>
        LET soup == call.soup
            method4 == increment_start(soup, call.current_url, call.solution_type)
        IN  IF Yields(soup.by_text)
            THEN call.out = process_next_link(soup.by_text, call.current_url,
                                              call.solution_type)
            ELSE IF Yields(soup.by_class)
            THEN call.out = process_next_link(soup.by_class, call.current_url,
                                              call.solution_type)
            ELSE IF Yields(soup.after_active)
            THEN call.out = process_next_link(soup.after_active, call.current_url,
                                              call.solution_type)
            ELSE method4.returned => call.out = method4.url

\* C23, when every anchor found has an href
C23_HoldsWhenAnchorsHaveHref ==
    (/\ call.fn = "handle_pagination"
     /\ \A a \in {call.soup.by_text, call.soup.by_class, call.soup.after_active} :
           a.found => a.has_href)
        => C23_FirstYieldingStrategyWins

\* C24: on every listing page the stubs extract_assessment_links returns have
\* pairwise different URLs, none of them was in the processed-URL set before
\* the call, all of them are in it after the call, and all_found_urls lists
\* every item URL of the section, skipped or not.
ElemsOf(seq) == {seq[k] : k \in 1..Len(seq)}
C24_StubsNewOnceAndAllSeen ==
    call.fn = "extract_assessment_links" =>
        LET r == call.out
            met == IF call.soup.container[call.section] = "none" THEN {}
                   ELSE {a.url : a \in ElemsOf(call.soup.anchors[call.section])}
        IN  /\ \A i, j \in 1..Len(r.assessments) :
                  r.assessments[i].url = r.assessments[j].url => i = j
            /\ UrlsOf(r.assessments) \cap call.processed_urls = {}
            /\ UrlsOf(r.assessments) \subseteq r.processed_urls
            /\ call.processed_urls \subseteq r.processed_urls
            /\ ElemsOf(r.all_found_urls) = met

\* C24: two anchors of one new item and an anchor of an item processed
\* before the call; one stub, and both URLs in all_found_urls
C24_Witness ==
    /\ call.fn = "extract_assessment_links"
    /\ call.soup.anchors[call.section] = <<A(1), A(2), A(1)>>
    /\ call.soup.container[call.section] = "header"
    /\ call.processed_urls = {2}
    /\ call.out.assessments = <<Record(1)>>
    /\ call.out.all_found_urls = <<1, 2, 1>>
    /\ call.out.processed_urls = {1, 2}

EnrichmentCall ==
    call.fn \in {"extract_assessment_details", "crawler_extract_assessment_details"}

\* C25: when the fetch of the detail page fails, extract_assessment_details
\* (script_manus.py and old_files/crawler.py) raises nothing and returns the
\* stub with every field it had unchanged and with a marker that says the
\* record is incomplete.
C25_FailedFetchMarksIncomplete ==
    (EnrichmentCall /\ ~call.soup.ok) =>
        /\ ~call.raised
        /\ \A f \in DOMAIN call.assessment \ {"details_extracted"} :
              f \in DOMAIN call.out /\ call.out[f] = call.assessment[f]
        /\ "details_extracted" \in DOMAIN call.out
        /\ call.out.details_extracted = FALSE

\* C25, old_files/crawler.py alone
C25_CrawlerFailedFetchMarksIncomplete ==
    call.fn = "crawler_extract_assessment_details" => C25_FailedFetchMarksIncomplete

SevenKeys ==
    {"name", "url", "remote_testing_support", "adaptive_irt_support", "duration",
     "test_types", "description"}
HasSevenKeys(r) ==
    /\ SevenKeys \subseteq DOMAIN r
    /\ DOMAIN r.test_types = 1..Len(r.test_types)

\* C26: every record of the dataset and of the dataset file has the seven
\* keys name, url, remote_testing_support, adaptive_irt_support, duration,
\* test_types and description, and its test_types is a list, empty or not.
C26_RecordsHaveSevenKeys ==
    /\ \A k \in 1..Len(all_assessments) : HasSevenKeys(all_assessments[k])
    /\ outFile.exists =>
          \A k \in 1..Len(outFile.content) : HasSevenKeys(outFile.content[k])

\* C26 of the records extract_assessment_details of script_manus.py returns
C26_ScriptManusRecordsHaveSevenKeys ==
    call.fn = "extract_assessment_details" => HasSevenKeys(call.out)

\* the labels the source of a record's test types names, in the order of
\* its text: the letters of the row when one of them is mapped, otherwise
\* the text of the detail page
keyword_label(k) ==
    CASE k = "ability" -> "Ability"
      [] k = "cognitive" -> "Cognitive"
      [] k = "knowledge" -> "Knowledge"
SourceLabels(c) ==
    IF listing_test_types(c.anchor.letters, <<>>) # <<>> /\ c.anchor.row
    THEN listing_test_types(c.anchor.letters, <<>>)
    ELSE IF ~c.soup.ok THEN <<>>
    ELSE IF c.fn = "extract_assessment_details"
    THEN listing_test_types(c.soup.type_text, <<>>)
    ELSE [k \in 1..Len(c.soup.measures) |-> keyword_label(c.soup.measures[k])]
FirstPos(x, seq) == CHOOSE k \in 1..Len(seq) : seq[k] = x /\ \A j \in 1..(k - 1) : seq[j] # x
FirstSeenOrder(types, source) ==
    /\ \A k \in 1..Len(types) : types[k] \in Vocabulary /\ InSeq(types[k], source)
    /\ \A i, j \in 1..Len(types) : types[i] = types[j] => i = j
    /\ \A i, j \in 1..Len(types) :
          i < j => FirstPos(types[i], source) < FirstPos(types[j], source)

\* C27: the test_types of a record produced by link extraction followed by
\* enrichment holds only labels of the vocabulary, each at most once, in the
\* order in which its source first names them.
C27_TestTypesUniqueInFirstSeenOrder ==
    (EnrichmentCall /\ call.pass = 1 /\ "test_types" \in DOMAIN call.out)
        => FirstSeenOrder(call.out.test_types, SourceLabels(call))

\* C27 of the records whose test types come from the detail page of
\* script_manus.py, and of those whose test types come from the row in
\* old_files/crawler.py
C27_HoldsWhereDuplicatesAreTested ==
    (/\ EnrichmentCall /\ call.pass = 1 /\ "test_types" \in DOMAIN call.out
     /\ \/ call.fn = "extract_assessment_details" /\ call.assessment.test_types = <<>>
        \/ call.fn = "crawler_extract_assessment_details"
           /\ call.assessment.test_types # <<>>)
        => FirstSeenOrder(call.out.test_types, SourceLabels(call))

\* C28: through any number of successive enrichment passes on a record each
\* of the flags remote_testing_support and adaptive_irt_support is, after a
\* pass, its value before the pass or Yes, and a flag that was Yes once is
\* Yes after every later pass.
C28_FlagsMonotonic ==
    EnrichmentCall =>
        \A f \in Flags :
            /\ call.out[f] \in {call.assessment[f], "Yes"}
            /\ f \in call.yes_seen => call.out[f] = "Yes"

\* C28: a third pass on a record whose remote flag was set to Yes by an
\* earlier pass, with a page that does not say yes on it, and whose
\* adaptive flag is still No
C28_Witness ==
    /\ EnrichmentCall
    /\ call.pass = MaxPasses
    /\ call.anchor.remote = FALSE /\ call.anchor.row
    /\ call.assessment.remote_testing_support = "Yes"
    /\ call.soup.ok /\ call.soup.remote = "label"
    /\ call.out.remote_testing_support = "Yes"
    /\ call.out.adaptive_irt_support = "No"

\* C29: when the text of a detail page holds both the range "15-20 minutes"
\* and the single value "30 minutes", wherever each of them stands,
\* extract_assessment_details (script_manus.py and old_files/crawler.py)
\* sets duration to "15-20 minutes".
C29_RangeBeforeSingleValue ==
    (/\ EnrichmentCall /\ call.pass = 1 /\ call.soup.ok
     /\ InSeq("range", page_text(call.soup))
     /\ InSeq("single", page_text(call.soup)))
        => call.out.duration = "15-20 minutes"

\* C29 of old_files/crawler.py when both stand in the text that is searched
\* first (the labeled section, or the page when there is no such section)
C29_CrawlerRangeFirstInOneText ==
    (/\ call.fn = "crawler_extract_assessment_details" /\ call.pass = 1
     /\ call.soup.ok
     /\ LET first == IF call.soup.has_section THEN call.soup.section
                     ELSE call.soup.rest
        IN  InSeq("range", first) /\ InSeq("single", first))
        => call.out.duration = "15-20 minutes"

\* C30: in extract_assessment_details of old_files/crawler.py a labeled
\* section that holds text but no number does not block the search of the
\* whole page: when the page holds a number of minutes outside the section,
\* the duration is the one the search of the whole page gives.
C30_TextOnlySectionFallsBack ==
    (/\ call.fn = "crawler_extract_assessment_details" /\ call.pass = 1
     /\ call.soup.ok /\ call.soup.has_section
     /\ call.soup.section # <<>>
     /\ crawler_minutes(call.soup.section) = NoValue
     /\ crawler_minutes(page_text(call.soup)) # NoValue)
        => call.out.duration = crawler_minutes(page_text(call.soup))

\* C30 when the labeled section is absent or empty
C30_FallsBackWithoutSectionText ==
    (/\ call.fn = "crawler_extract_assessment_details" /\ call.pass = 1
     /\ call.soup.ok
     /\ ~call.soup.has_section \/ call.soup.section = <<>>)
        => call.out.duration = crawler_page_search(call.soup)

\* C31: crawl_section of script_manus.py takes a page for harvested by its
\* fingerprint: whenever a later pass over a page URL skips the page, the
\* fingerprint of the URL with the items the page lists now is the one
\* computed when the page was harvested.
C31_SkippedOnlyWithSameFingerprint ==
    (call.fn = "crawl_section_page" /\ call.revisited /\ call.skipped) =>
        generate_page_fingerprint(call.url, call.now) = call.page_fingerprint

\* a listing page that is fetched at every attempt and holds no item link,
\* no rate-limit phrase and no "no results" phrase
PlainEmptyPage(u) ==
    /\ ~Flaky(catalog, u)
    /\ LET soup == PageAt(catalog, u)
       IN  /\ extract_assessment_links(soup, section_type, {}).all_found_urls = <<>>
           /\ soup.text = "plain"
           /\ u.type = TypeOf(section_type)

\* C32: crawl_section of script_manus.py stops the crawl of the section once
\* max_empty_pages = 3 consecutive listing pages were fetched and held no
\* item link: it never goes on to fetch a page when the three pages before
\* it, visited in this call, were such pages.
C32_StopsAfterThreeEmptyPages ==
    (pc = "fetch" /\ HasStart(current_url)
                  /\ current_url.start >= (max_empty_pages + 1) * PageSize) =>
        ~ \A k \in 1..max_empty_pages :
              LET u == Url(current_url.type, current_url.start - k * PageSize)
              IN  Visits(visited_urls, u) >= 1 /\ PlainEmptyPage(u)

\* C33: in crawl_section of old_files/crawler.py a page that loads without
\* new assessments while its 'Next' link gives a URL is not left: the step
\* that ends the pass over such a page keeps current_url, so the same URL
\* is fetched next.
C33_EmptyPageWithNextIsRetried ==
    [][(/\ pc = "paginate"
        /\ page_assessments = <<>>
        /\ crawler_handle_pagination(PageAt(catalog, current_url), current_url,
                                     TypeOf(section_type)) # None
        /\ pc' = "loop")
       => current_url' = current_url]_vars

\* C34: when no section container is located on the page (no section
\* heading and no type marker), extract_assessment_links of script_manus.py
\* returns an empty list of stubs and an empty list of seen URLs, and
\* processed_urls is what it was before the call.
C34_NoContainerNoEffect ==
    (call.fn = "extract_assessment_links"
        /\ call.soup.container[call.section] = "none") =>
        /\ call.out.assessments = <<>>
        /\ call.out.all_found_urls = <<>>
        /\ call.out.processed_urls = call.processed_urls

\* C34: a page without container whose anchors lead to an item not yet
\* processed, called with a processed URL
C34_Witness ==
    /\ call.fn = "extract_assessment_links"
    /\ call.soup.container[call.section] = "none"
    /\ \E k \in 1..Len(call.soup.anchors[call.section]) :
          /\ call.soup.anchors[call.section][k].row
          /\ call.soup.anchors[call.section][k].url \notin call.processed_urls
    /\ call.processed_urls # {}
    /\ call.out.assessments = <<>>
    /\ call.out.processed_urls = call.processed_urls

-----------------------------------------------------------------------------
\* The writes of the three files, chunk by chunk.  open(path, 'w') empties
\* the file; json.dump hands the text to the file object in chunks, which
\* the object keeps in its buffer until the buffer is flushed; the close at
\* the end of the with block flushes what is left.  A file on disk holds
\* the text written to it, as a sequence of chunks.
MaxRecords == 2

Tok(kind, val) == [kind |-> kind, val |-> val]
Hole == Tok("nul", 0)

\* json.dump(all_assessments, f, ...): the bracket, one chunk per record,
\* the closing bracket
DumpDataset(recs) ==
    <<Tok("open", 0)>> \o [k \in 1..Len(recs) |-> Tok("rec", recs[k].url)]
                       \o <<Tok("close", 0)>>

\* json.dump(crawl_state, f, ...): last_crawl_time is the first key of the
\* dictionary, the other keys follow
DumpState(cs) ==
    << Tok("open", 0), Tok("last_crawl_time", cs.last_crawl_time),
       Tok("completed", IF cs.completed THEN 1 ELSE 0), Tok("close", 0) >>

\* json.load accepts the text
WellFormed(text) ==
    /\ Len(text) >= 2
    /\ text[1].kind = "open"
    /\ text[Len(text)].kind = "close"
    /\ \A k \in 2..(Len(text) - 1) : text[k].kind \notin {"open", "close", "nul"}

\* the write of a buffer at the offset of its file descriptor
Overwrite(text, pos, buf) ==
    IF buf = <<>> THEN text
    ELSE LET n == IF Len(text) > pos + Len(buf) THEN Len(text) ELSE pos + Len(buf)
         IN  [k \in 1..n |-> IF k > pos /\ k <= pos + Len(buf) THEN buf[k - pos]
                             ELSE IF k <= Len(text) THEN text[k]
                             ELSE Hole]

FlushTo(file, pos, buf) ==
    IF buf = <<>> THEN file
    ELSE File(Overwrite(IF file.exists THEN file.content ELSE <<>>, pos, buf))

\* the datasets in memory, and the files left by earlier runs
Datasets == {[k \in 1..n |-> Record(k)] : n \in 0..MaxRecords}
NoWrite ==
    [fn |-> "write", op |-> "none", file |-> "none", pos |-> 0,
     buffer |-> <<>>, rest |-> <<>>, now |-> 1, before |-> NoFile]

WriteInit ==
    /\ catalog = "A"
    /\ outFile \in {NoFile, File(DumpDataset(Preloaded))}
    /\ partialFile \in {NoFile, File(DumpDataset(<<Record(1)>>))}
    /\ stateFile \in {NoFile, File(DumpState([InitialCrawlState EXCEPT
                                                 !.last_crawl_time = 0]))}
    /\ all_assessments \in Datasets
    /\ processed_urls = UrlsOf(all_assessments)
    /\ processed_pages = {}
    /\ crawl_state = [InitialCrawlState EXCEPT !.last_crawl_time = 0]
    /\ pc = "idle"
    /\ section_type = "pre-packaged"
    /\ current_url = None
    /\ page_num = 1
    /\ empty_page_count = 0
    /\ visited_urls = NoCounts
    /\ section_assessments = <<>>
    /\ page_assessments = <<>>
    /\ all_found_urls = <<>>
    /\ item_idx = 1
    /\ exit_reason = "none"
    /\ attempts = 0
    /\ fetch_result = "idle"
    /\ runs = 1
    /\ kills = 0
    /\ fails = 0
    /\ hist = InitialHist
    /\ call = [NoWrite EXCEPT !.before = outFile]

write_unused == << catalog, all_assessments, processed_urls, processed_pages,
                   locals, attempts, fetch_result, runs, fails, hist >>

\* crawl_state["last_crawl_time"] = datetime.now().isoformat()
stamp(cs, now) == [cs EXCEPT !.last_crawl_time = now]

\* with open(path, 'w') as f: the file is created or emptied
Opened(op, file, text) ==
    [call EXCEPT !.op = op, !.file = file, !.pos = 0, !.buffer = <<>>,
                 !.rest = text]

\* script_manus.py 1242-1246, crawler.py 750-757: the final write opens
\* OUTPUT_FILE
BeginFinalWrite ==
    /\ pc = "idle"
    /\ outFile' = File(<<>>)
    /\ call' = Opened("final", "output", DumpDataset(all_assessments))
    /\ pc' = "open"
    /\ UNCHANGED << partialFile, stateFile, crawl_state, kills, write_unused >>

\* save_partial_results, 220-228: PARTIAL_OUTPUT_FILE is opened
BeginSavePartialResults ==
    /\ pc = "idle"
    /\ partialFile' = File(<<>>)
    /\ call' = Opened("save_partial_results", "partial", DumpDataset(all_assessments))
    /\ pc' = "open"
    /\ UNCHANGED << outFile, stateFile, crawl_state, kills, write_unused >>

\* save_crawl_state, 133-145: the time is taken and METADATA_FILE is opened
BeginSaveCrawlState ==
    /\ pc = "idle"
    /\ crawl_state' = stamp(crawl_state, call.now)
    /\ stateFile' = File(<<>>)
    /\ call' = [Opened("save_crawl_state", "state", DumpState(crawl_state'))
                    EXCEPT !.now = @ + 1]
    /\ pc' = "open"
    /\ UNCHANGED << outFile, partialFile, kills, write_unused >>

\* json.dump: the next chunk goes to the buffer of the file object
WriteChunk ==
    /\ pc = "open"
    /\ call.rest # <<>>
    /\ call' = [call EXCEPT !.buffer = Append(@, Head(call.rest)),
                            !.rest = Tail(@)]
    /\ UNCHANGED << files, crawl_state, pc, kills, write_unused >>

\* the buffer is written to the file at the offset of the descriptor
FlushBuffer ==
    /\ pc = "open"
    /\ call.buffer # <<>>
    /\ outFile' = IF call.file = "output"
                  THEN FlushTo(outFile, call.pos, call.buffer) ELSE outFile
    /\ partialFile' = IF call.file = "partial"
                      THEN FlushTo(partialFile, call.pos, call.buffer) ELSE partialFile
    /\ stateFile' = IF call.file = "state"
                    THEN FlushTo(stateFile, call.pos, call.buffer) ELSE stateFile
    /\ call' = [call EXCEPT !.pos = @ + Len(call.buffer), !.buffer = <<>>]
    /\ UNCHANGED << crawl_state, pc, kills, write_unused >>

\* the end of the with block: the buffer is flushed and the file closed;
\* save_partial_results goes on with save_crawl_state (line 233)
CloseFile ==
    /\ pc = "open"
    /\ call.rest = <<>>
    /\ outFile' = IF call.file = "output"
                  THEN FlushTo(outFile, call.pos, call.buffer) ELSE outFile
    /\ partialFile' = IF call.file = "partial"
                      THEN FlushTo(partialFile, call.pos, call.buffer) ELSE partialFile
    /\ IF call.op = "save_partial_results" /\ call.file = "partial"
       THEN /\ crawl_state' = stamp(crawl_state, call.now)
            /\ stateFile' = File(<<>>)
            /\ call' = [Opened("save_partial_results", "state",
                               DumpState(crawl_state')) EXCEPT !.now = @ + 1]
            /\ pc' = "open"
       ELSE /\ stateFile' = IF call.file = "state"
                            THEN FlushTo(stateFile, call.pos, call.buffer)
                            ELSE stateFile
            /\ call' = [call EXCEPT !.pos = @ + Len(call.buffer), !.buffer = <<>>]
            /\ pc' = "done"
            /\ UNCHANGED crawl_state
    /\ UNCHANGED << kills, write_unused >>

\* signal_handler, 235-249, run while a file is open: save_partial_results
\* writes PARTIAL_OUTPUT_FILE and, stamped anew, METADATA_FILE through file
\* objects of its own; sys.exit(0) then raises SystemExit in the interrupted
\* frame (no `except Exception` catches it), whose with block closes the
\* interrupted file object, and the close flushes its buffer at the offset
\* of its descriptor.
SignalHandler ==
    /\ pc = "open"
    /\ kills < MaxKills
    /\ kills' = kills + 1
    /\ crawl_state' = stamp(crawl_state, call.now)
    /\ LET unwound(name, file) ==
               IF call.file = name THEN FlushTo(file, call.pos, call.buffer)
               ELSE file
       IN  /\ outFile' = unwound("output", outFile)
           /\ partialFile' = unwound("partial", File(DumpDataset(all_assessments)))
           /\ stateFile' = unwound("state", File(DumpState(crawl_state')))
    /\ call' = [call EXCEPT !.now = @ + 1, !.pos = @ + Len(call.buffer),
                            !.buffer = <<>>]
    /\ pc' = "exited"
    /\ UNCHANGED write_unused

\* the process is killed while the file is open: what is in the buffer is
\* lost
KillDuringWrite ==
    /\ pc = "open"
    /\ kills < MaxKills
    /\ kills' = kills + 1
    /\ pc' = "killed"
    /\ call' = [call EXCEPT !.buffer = <<>>]
    /\ UNCHANGED << files, crawl_state, write_unused >>

\* a write of the file object raises OSError (the disk is full): the with
\* block closes the file, and nothing more reaches it.  The final write of
\* script_manus.py lets the exception go, crawler.py and the two save
\* functions report it; save_partial_results goes on with save_crawl_state.
WriteFails ==
    /\ pc = "open"
    /\ call.buffer # <<>>
    /\ IF call.op = "save_partial_results" /\ call.file = "partial"
       THEN /\ crawl_state' = stamp(crawl_state, call.now)
            /\ stateFile' = File(<<>>)
            /\ call' = [Opened("save_partial_results", "state",
                               DumpState(crawl_state')) EXCEPT !.now = @ + 1]
            /\ pc' = "open"
       ELSE /\ call' = [call EXCEPT !.buffer = <<>>]
            /\ pc' = "failed"
            /\ UNCHANGED << crawl_state, stateFile >>
    /\ UNCHANGED << outFile, partialFile, kills, write_unused >>

WriteNext ==
    \/ BeginFinalWrite
    \/ BeginSavePartialResults
    \/ BeginSaveCrawlState
    \/ WriteChunk
    \/ FlushBuffer
    \/ CloseFile
    \/ SignalHandler
    \/ KillDuringWrite
    \/ WriteFails

SpecWrite == WriteInit /\ [][WriteNext]_vars

\* C35: the full save of the dataset file is atomic: when the process was
\* killed, was interrupted or failed during the final write, the dataset
\* file holds its complete previous content or the complete new content.
C35_FinalWriteIsAtomic ==
    (call.fn = "write" /\ call.op = "final"
        /\ pc \in {"killed", "failed", "exited"}) =>
        outFile \in {call.before, File(DumpDataset(all_assessments))}

\* C39: a signal that arrives while save_partial_results or
\* save_crawl_state is writing a file leaves, at the exit of the process,
\* the complete serialization of the dataset and of the crawl state in
\* memory on disk: what the handler wrote is not overwritten by the
\* interrupted write.
C39_HandlerWriteSurvives ==
    (call.fn = "write" /\ pc = "exited"
        /\ call.op \in {"save_partial_results", "save_crawl_state"}) =>
        /\ partialFile = File(DumpDataset(all_assessments))
        /\ stateFile = File(DumpState(crawl_state))
        /\ WellFormed(stateFile.content)

\* C36: in script_manus.py no URL is marked processed without a record: at
\* the end of every pass of the loop of crawl_section and at the end of the
\* seed phase, every URL of processed_urls is the url of a record of
\* all_assessments.
C36_ProcessedUrlsHaveRecords ==
    pc \in {"loop", "epilogue", "section"} =>
        processed_urls \subseteq UrlsOf(all_assessments)

\* C37: crawl_section of script_manus.py passes over no listing page after
\* a failed fetch: when the section is marked complete (its last page is
\* None), every page URL this call tried and went on from is in
\* processed_pages, the pages fetched successfully in this run or an
\* earlier one.
C37_NoPagePassedOverAfterFailedFetch ==
    (pc = "returned" /\ LastPage(crawl_state, section_type) = None) =>
        \A u \in Urls :
            (Visits(visited_urls, u) >= 1 /\ u # current_url) =>
                u \in processed_pages

-----------------------------------------------------------------------------
\* The crawl of script_manus.py left to itself: no signal, no kill, no
\* exception; the process takes its next step whenever it has one.
LiveCatalogs == {"A", "D"}

LiveInit ==
    /\ catalog \in LiveCatalogs
    /\ outFile \in {NoFile, File(Preloaded)}
    /\ partialFile = NoFile
    /\ stateFile = NoFile
    /\ all_assessments = <<>>
    /\ processed_urls = {}
    /\ processed_pages = {}
    /\ crawl_state = InitialCrawlState
    /\ pc = "off"
    /\ section_type = "pre-packaged"
    /\ current_url = None
    /\ page_num = 1
    /\ empty_page_count = 0
    /\ visited_urls = NoCounts
    /\ section_assessments = <<>>
    /\ page_assessments = <<>>
    /\ all_found_urls = <<>>
    /\ item_idx = 1
    /\ exit_reason = "none"
    /\ attempts = 0
    /\ fetch_result = "idle"
    /\ runs = 0
    /\ kills = 0
    /\ fails = 0
    /\ hist = InitialHist
    /\ call = NoCall

\* The listing URLs beyond MaxStart.  Every offset beyond MaxStart stands
\* for a URL the crawl has not met before (the offsets only grow there), so
\* it is in neither processed_pages nor visited_urls; FarUrl stands for all
\* of them.  Beyond MaxStart catalog D goes on listing its item, the other
\* catalogs serve pages without links, and no fetch fails.
IsFar(u) == u # None /\ u.start > MaxStart
FarUrl(t) == Url(t, MaxStart + PageSize)
FarPageAt(c, u) ==
    IF c = "D" THEN Page(SecOf(u), "header", <<A(1)>>, "plain", NoLink)
    ELSE EmptyPage(SecOf(u))

\* the passes of the loop of crawl_section over the URLs up to MaxStart
NearLoopTop == ~IsFar(current_url) /\ LoopTop
NearFetchFail == ~IsFar(current_url) /\ FetchFail
NearFetchOk == ~IsFar(current_url) /\ FetchOk
NearPaginate == ~IsFar(current_url) /\ Paginate

\* crawl_section, lines 695-765, at a URL not met before: it is not in
\* processed_pages, its visit count becomes 1, and the state is saved
FarLoopTop ==
    /\ pc = "loop"
    /\ IsFar(current_url)
    /\ LET at_cs == save_crawl_state(
                        SetLastPage(crawl_state, section_type, current_url, page_num),
                        processed_pages)
       IN /\ crawl_state' = at_cs
          /\ stateFile' = File(at_cs)
    /\ pc' = "fetch"
    /\ UNCHANGED << call, catalog, attempts, fetch_result, outFile, partialFile,
                    all_assessments, processed_urls, processed_pages, locals,
                    counters, hist >>

\* crawl_section, lines 801-887, at such a URL
FarFetchOk ==
    /\ pc = "fetch"
    /\ IsFar(current_url)
    /\ LET soup == FarPageAt(catalog, current_url)
           solution_type == TypeOf(section_type)
           links == extract_assessment_links(soup, section_type, processed_urls)
           done_cs == save_crawl_state(MarkComplete(crawl_state, section_type),
                                       processed_pages)
           empty == Len(links.all_found_urls) = 0
       IN /\ processed_urls' = links.processed_urls
          /\ page_assessments' = links.assessments
          /\ all_found_urls' = links.all_found_urls
          /\ item_idx' = 1
          /\ IF empty /\ soup.text = "ratelimit"
             THEN /\ pc' = "loop"
                  /\ empty_page_count' = 0
                  /\ UNCHANGED << current_url, crawl_state, stateFile, exit_reason >>
             ELSE IF empty /\ current_url.type # solution_type
             THEN /\ pc' = "loop"
                  /\ empty_page_count' = 0
                  /\ current_url' = Url(solution_type, current_url.start)
                  /\ UNCHANGED << crawl_state, stateFile, exit_reason >>
             ELSE IF empty /\ no_results_indicated(soup)
             THEN /\ pc' = "epilogue"
                  /\ empty_page_count' = 0
                  /\ exit_reason' = "no_results"
                  /\ UNCHANGED << current_url, crawl_state, stateFile >>
             ELSE IF empty /\ page_num > LastPageThreshold
             THEN /\ pc' = "epilogue"
                  /\ empty_page_count' = 0
                  /\ crawl_state' = done_cs
                  /\ stateFile' = File(done_cs)
                  /\ UNCHANGED << current_url, exit_reason >>
             ELSE /\ empty_page_count' = IF empty THEN 1 ELSE 0
                  /\ pc' = IF empty /\ empty_page_count' >= max_empty_pages
                           THEN "epilogue"
                           ELSE IF links.assessments # <<>> THEN "items"
                           ELSE "paginate"
                  /\ UNCHANGED << current_url, crawl_state, stateFile, exit_reason >>
    /\ UNCHANGED << call, catalog, attempts, fetch_result, outFile, partialFile,
                    all_assessments, processed_pages, section_type, page_num,
                    visited_urls, section_assessments, counters, hist >>

\* crawl_section, lines 921-1052, when the page or the next URL is beyond
\* MaxStart; page_num is only compared with 1 and with 10 and is not counted
\* beyond LastPageThreshold + 1
FarPaginate ==
    /\ pc = "paginate"
    /\ LET soup == IF IsFar(current_url) THEN FarPageAt(catalog, current_url)
                   ELSE PageAt(catalog, current_url)
           d == next_page_decision(soup, current_url, page_num,
                    section_type, empty_page_count, all_found_urls, page_assessments,
                    section_assessments, visited_urls)
           done_cs == save_crawl_state(MarkComplete(crawl_state, section_type),
                                       processed_pages)
           saved == save_crawl_state(crawl_state, processed_pages)
       IN /\ IsFar(current_url) \/ (~d.stop /\ ~InRange(d.url))
          /\ IF d.stop
             THEN /\ pc' = "epilogue"
                  /\ exit_reason' = IF d.mark THEN "marked_complete" ELSE "no_next_page"
                  /\ crawl_state' = IF d.mark THEN done_cs ELSE crawl_state
                  /\ stateFile' = IF d.mark THEN File(done_cs) ELSE stateFile
                  /\ UNCHANGED << current_url, page_num, partialFile, hist >>
             ELSE /\ current_url' = IF InRange(d.url) THEN d.url ELSE FarUrl(d.url.type)
                  /\ page_num' = IF page_num > LastPageThreshold THEN page_num
                                 ELSE page_num + 1
                  /\ partialFile' = File(all_assessments)
                  /\ crawl_state' = saved
                  /\ stateFile' = File(saved)
                  /\ hist' = Flushed(hist, all_assessments)
                  /\ pc' = "loop"
                  /\ UNCHANGED exit_reason
    /\ UNCHANGED << call, catalog, attempts, fetch_result, outFile, all_assessments,
                    processed_urls, processed_pages, section_type, empty_page_count,
                    visited_urls, section_assessments, page_assessments,
                    all_found_urls, item_idx, counters >>

LiveNext ==
    \/ Start
    \/ SeedSkip
    \/ SeedFetchFail
    \/ SeedFetchOk
    \/ ProcessMainPageItem
    \/ BeginSection
    \/ EnterCrawlSection
    \/ NearLoopTop
    \/ NearFetchFail
    \/ NearFetchOk
    \/ ProcessItem
    \/ NearPaginate
    \/ FarLoopTop
    \/ FarFetchOk
    \/ FarPaginate
    \/ SectionEpilogue
    \/ AfterPrePackaged
    \/ MarkCompleted
    \/ WriteOutput

SpecLive == LiveInit /\ [][LiveNext]_vars /\ WF_vars(LiveNext)

\* C38: every call of crawl_section of script_manus.py with max_pages =
\* None returns on a finite catalog, also when the pages beyond the last
\* new item are fetched and list items already processed.
C38_CrawlSectionTerminates ==
    (pc = "crawl_section") ~> (pc = "returned")

============================================================================
